---------------------------- MODULE Spec2Model ----------------------------
(***************************************************************************)
(* A model of ai-digest's digest pipeline (src/src/digest.ts and its       *)
(* helpers in utils.ts): processFiles walks the input directories, sorts   *)
(* the entries, classifies each one and builds its Markdown fragment;      *)
(* generateDigestContent joins the fragments.                              *)
(*                                                                         *)
(* A JavaScript string is modelled as a sequence of pieces.  A piece is a  *)
(* one-character TLA+ string, one UTF-16 code unit, wherever the code      *)
(* looks at characters (paths, patterns, file contents, fences).  Five     *)
(* code units have a name instead: "<hi>" a high surrogate, "<lo>" a low   *)
(* surrogate, "<2>" a code point that UTF-8 encodes in two bytes, "<0>"    *)
(* the NUL character and "<bt>" the backtick.  The fixed English sentences *)
(* of the fragments are pieces of several ASCII characters each.           *)
(***************************************************************************)
EXTENDS Integers, Sequences, FiniteSets, TLC

(***************************************************************************)
(* Bounds of the model.                                                    *)
(***************************************************************************)
\* the largest number of files on the modelled disk
MaxFiles == 3
\* how many times the pipeline is run over the same disk
MaxRuns == 2

(***************************************************************************)
(* Strings.                                                                *)
(***************************************************************************)
UpperAlpha ==
  <<"A","B","C","D","E","F","G","H","I","J","K","L","M",
    "N","O","P","Q","R","S","T","U","V","W","X","Y","Z">>

LowerAlpha ==
  <<"a","b","c","d","e","f","g","h","i","j","k","l","m",
    "n","o","p","q","r","s","t","u","v","w","x","y","z">>

Digits == <<"0","1","2","3","4","5","6","7","8","9">>

\* the position of c in the sequence s, 0 when it does not occur
IndexOf(s, c) ==
  IF \E i \in 1..Len(s) : s[i] = c
  THEN CHOOSE i \in 1..Len(s) : s[i] = c /\ \A j \in 1..(i - 1) : s[j] # c
  ELSE 0

\* String.prototype.toLowerCase on one code unit
LowerOf ==
  [c \in {UpperAlpha[i] : i \in 1..Len(UpperAlpha)} |->
     LowerAlpha[IndexOf(UpperAlpha, c)]]

LowerChar(c) == IF c \in DOMAIN LowerOf THEN LowerOf[c] ELSE c

ToLowerCase(s) == [i \in 1..Len(s) |-> LowerChar(s[i])]

IsDigit(c) == IndexOf(Digits, c) > 0

DigitVal(c) == IndexOf(Digits, c) - 1

StartsWith(s, p) == Len(s) >= Len(p) /\ SubSeq(s, 1, Len(p)) = p

EndsWith(s, p) ==
  Len(s) >= Len(p) /\ SubSeq(s, Len(s) - Len(p) + 1, Len(s)) = p

\* String.prototype.split with a one-character separator
RECURSIVE SplitAcc(_, _, _)
SplitAcc(s, sep, cur) ==
  IF s = <<>> THEN <<cur>>
  ELSE IF Head(s) = sep THEN <<cur>> \o SplitAcc(Tail(s), sep, <<>>)
  ELSE SplitAcc(Tail(s), sep, Append(cur, Head(s)))

Split(s, sep) == SplitAcc(s, sep, <<>>)

\* Array.prototype.join
RECURSIVE JoinWith(_, _)
JoinWith(parts, sep) ==
  IF parts = <<>> THEN <<>>
  ELSE IF Len(parts) = 1 THEN parts[1]
  ELSE parts[1] \o sep \o JoinWith(Tail(parts), sep)

RECURSIVE Concat(_)
Concat(parts) == IF parts = <<>> THEN <<>> ELSE Head(parts) \o Concat(Tail(parts))

\* the non-empty elements of a sequence of strings, in order
RECURSIVE DropEmpty(_)
DropEmpty(parts) ==
  IF parts = <<>> THEN <<>>
  ELSE IF Head(parts) = <<>> THEN DropEmpty(Tail(parts))
  ELSE <<Head(parts)>> \o DropEmpty(Tail(parts))

\* the decimal digits of a natural number
RECURSIVE NatToString(_)
NatToString(n) ==
  IF n < 10 THEN <<Digits[n + 1]>>
  ELSE NatToString(n \div 10) \o <<Digits[(n % 10) + 1]>>

(***************************************************************************)
(* Buffer.byteLength(string): the length of the UTF-8 encoding.  A high    *)
(* surrogate directly followed by a low surrogate is one code point of     *)
(* four bytes; a surrogate without its partner is encoded as U+FFFD, three *)
(* bytes; an ASCII piece takes one byte for each character; the piece      *)
(* "<11MB>" stands for a letter repeated over 11 MB.                       *)
(***************************************************************************)
\* the bytes the piece at position i adds to the encoding of s
PieceBytes(s, i) ==
  IF s[i] = "<hi>" THEN (IF i < Len(s) /\ s[i + 1] = "<lo>" THEN 4 ELSE 3)
  ELSE IF s[i] = "<lo>" THEN (IF i > 1 /\ s[i - 1] = "<hi>" THEN 0 ELSE 3)
  ELSE IF s[i] = "<2>" THEN 2
  ELSE IF s[i] \in {"<0>", "<bt>"} THEN 1
  ELSE IF s[i] = "<11MB>" THEN 11 * 1024 * 1024
  ELSE Len(s[i])

RECURSIVE BytesBetween(_, _, _)
BytesBetween(s, from, to) ==
  IF from > to THEN 0
  ELSE IF from = to THEN PieceBytes(s, from)
  ELSE BytesBetween(s, from, (from + to) \div 2)
       + BytesBetween(s, ((from + to) \div 2) + 1, to)

ByteLength(s) == BytesBetween(s, 1, Len(s))

(***************************************************************************)
(* Node's path module (POSIX flavour).                                     *)
(***************************************************************************)
Slash == <<"/">>

IsAbsolute(p) == p # <<>> /\ Head(p) = "/"

\* resolves "." and ".." in a list of segments; keeps leading ".." of a
\* relative path
RECURSIVE NormalizeSegments(_, _, _)
NormalizeSegments(segs, acc, abs) ==
  IF segs = <<>> THEN acc
  ELSE LET s == Head(segs) IN
    IF s = <<>> \/ s = <<".">> THEN NormalizeSegments(Tail(segs), acc, abs)
    ELSE IF s = <<".", ".">> THEN
      IF acc # <<>> /\ acc[Len(acc)] # <<".", ".">>
      THEN NormalizeSegments(Tail(segs), SubSeq(acc, 1, Len(acc) - 1), abs)
      ELSE IF abs THEN NormalizeSegments(Tail(segs), acc, abs)
      ELSE NormalizeSegments(Tail(segs), Append(acc, s), abs)
    ELSE NormalizeSegments(Tail(segs), Append(acc, s), abs)

\* path.normalize
Normalize(p) ==
  IF p = <<>> THEN <<".">>
  ELSE LET abs == IsAbsolute(p)
           body == JoinWith(NormalizeSegments(Split(p, "/"), <<>>, abs), Slash)
           trail == IF body # <<>> /\ p[Len(p)] = "/" THEN Slash ELSE <<>>
       IN IF abs THEN Slash \o body \o trail
          ELSE IF body = <<>> THEN (IF p[Len(p)] = "/" THEN <<".", "/">> ELSE <<".">>)
          ELSE body \o trail

\* path.join of two parts
PathJoin(a, b) ==
  IF a = <<>> THEN Normalize(b)
  ELSE IF b = <<>> THEN Normalize(a)
  ELSE Normalize(a \o Slash \o b)

\* path.basename
Basename(p) ==
  LET segs == DropEmpty(Split(p, "/"))
  IN IF segs = <<>> THEN <<>> ELSE segs[Len(segs)]

\* path.extname: from the last "." of the basename, "" when there is none or
\* when the only one opens the basename
Extname(p) ==
  LET b == Basename(p)
      dots == {i \in 1..Len(b) : b[i] = "."}
  IN IF dots = {} \/ b = <<".", ".">> THEN <<>>
     ELSE LET last == CHOOSE i \in dots : \A j \in dots : j <= i
          IN IF last = 1 THEN <<>> ELSE SubSeq(b, last, Len(b))

(***************************************************************************)
(* utils.ts                                                                *)
(***************************************************************************)
WHITESPACE_DEPENDENT_EXTENSIONS ==
  <<<<".","p","y">>,
    <<".","y","a","m","l">>,
    <<".","y","m","l">>,
    <<".","j","a","d","e">>,
    <<".","h","a","m","l">>,
    <<".","s","l","i","m">>,
    <<".","c","o","f","f","e","e">>,
    <<".","p","u","g">>,
    <<".","s","t","y","l">>,
    <<".","g","d">>>>

DEFAULT_IGNORES ==
  <<<<".","a","i","d","i","g","e","s","t","i","g","n","o","r","e">>,
    <<".","a","i","d","i","g","e","s","t","m","i","n","i","f","y">>,
    <<"n","o","d","e","_","m","o","d","u","l","e","s">>,
    <<"p","a","c","k","a","g","e","-","l","o","c","k",".","j","s","o","n">>,
    <<"n","p","m","-","d","e","b","u","g",".","l","o","g">>,
    <<"y","a","r","n",".","l","o","c","k">>,
    <<"y","a","r","n","-","e","r","r","o","r",".","l","o","g">>,
    <<"p","n","p","m","-","l","o","c","k",".","y","a","m","l">>,
    <<"b","u","n",".","l","o","c","k","b">>,
    <<"b","u","n",".","l","o","c","k">>,
    <<"d","e","n","o",".","l","o","c","k">>,
    <<"v","e","n","d","o","r">>,
    <<"c","o","m","p","o","s","e","r",".","l","o","c","k">>,
    <<"_","_","p","y","c","a","c","h","e","_","_">>,
    <<"*",".","p","y","c">>,
    <<"*",".","p","y","o">>,
    <<"*",".","p","y","d">>,
    <<".","P","y","t","h","o","n">>,
    <<"p","i","p","-","l","o","g",".","t","x","t">>,
    <<"p","i","p","-","d","e","l","e","t","e","-","t","h","i","s","-","d","i","r","e","c","t","o","r","y",".","t","x","t">>,
    <<".","v","e","n","v">>,
    <<"v","e","n","v">>,
    <<"E","N","V">>,
    <<"e","n","v">>,
    <<".","g","o","d","o","t">>,
    <<"*",".","i","m","p","o","r","t">>,
    <<"G","e","m","f","i","l","e",".","l","o","c","k">>,
    <<".","b","u","n","d","l","e">>,
    <<"t","a","r","g","e","t">>,
    <<"*",".","c","l","a","s","s">>,
    <<".","g","r","a","d","l","e">>,
    <<"b","u","i","l","d">>,
    <<"p","o","m",".","x","m","l",".","t","a","g">>,
    <<"p","o","m",".","x","m","l",".","r","e","l","e","a","s","e","B","a","c","k","u","p">>,
    <<"p","o","m",".","x","m","l",".","v","e","r","s","i","o","n","s","B","a","c","k","u","p">>,
    <<"p","o","m",".","x","m","l",".","n","e","x","t">>,
    <<"b","i","n">>,
    <<"o","b","j">>,
    <<"*",".","s","u","o">>,
    <<"*",".","u","s","e","r">>,
    <<"g","o",".","s","u","m">>,
    <<"C","a","r","g","o",".","l","o","c","k">>,
    <<"t","a","r","g","e","t">>,
    <<".","g","i","t">>,
    <<".","s","v","n">>,
    <<".","h","g">>,
    <<".","D","S","_","S","t","o","r","e">>,
    <<"T","h","u","m","b","s",".","d","b">>,
    <<".","e","n","v">>,
    <<".","e","n","v",".","l","o","c","a","l">>,
    <<".","e","n","v",".","d","e","v","e","l","o","p","m","e","n","t",".","l","o","c","a","l">>,
    <<".","e","n","v",".","t","e","s","t",".","l","o","c","a","l">>,
    <<".","e","n","v",".","p","r","o","d","u","c","t","i","o","n",".","l","o","c","a","l">>,
    <<"*",".","e","n","v">>,
    <<"*",".","e","n","v",".","*">>,
    <<".","s","v","e","l","t","e","-","k","i","t">>,
    <<".","n","e","x","t">>,
    <<".","n","u","x","t">>,
    <<".","v","u","e","p","r","e","s","s">>,
    <<".","c","a","c","h","e">>,
    <<"d","i","s","t">>,
    <<"t","m","p">>,
    <<"c","o","d","e","b","a","s","e",".","m","d">>,
    <<".","t","u","r","b","o">>,
    <<".","v","e","r","c","e","l">>,
    <<".","n","e","t","l","i","f","y">>,
    <<"L","I","C","E","N","S","E">>>>

\* the characters JavaScript's \s and String.prototype.trim treat as white space
WhiteSpace == {" ", "\t", "\n", "\r"}

\* String.prototype.trim
RECURSIVE TrimStart(_)
TrimStart(s) ==
  IF s # <<>> /\ Head(s) \in WhiteSpace THEN TrimStart(Tail(s)) ELSE s

RECURSIVE TrimEnd(_)
TrimEnd(s) ==
  IF s # <<>> /\ s[Len(s)] \in WhiteSpace
  THEN TrimEnd(SubSeq(s, 1, Len(s) - 1)) ELSE s

Trim(s) == TrimEnd(TrimStart(s))

\* val.replace(/\s+/g, " "): every maximal run of white space becomes one space
RECURSIVE CollapseWhitespace(_)
CollapseWhitespace(s) ==
  IF s = <<>> THEN <<>>
  ELSE IF Head(s) \in WhiteSpace
       THEN <<" ">> \o CollapseWhitespace(TrimStart(s))
  ELSE <<Head(s)>> \o CollapseWhitespace(Tail(s))

removeWhitespace(val) == Trim(CollapseWhitespace(val))

TripleBacktick == <<"<bt>", "<bt>", "<bt>">>

EscapedTripleBacktick == <<"\\", "<bt>", "\\", "<bt>", "\\", "<bt>">>

\* content.replace without the g flag: only the first run of three
\* backticks is escaped
RECURSIVE escapeFirstTripleBacktick(_)
escapeFirstTripleBacktick(content) ==
  IF content = <<>> THEN <<>>
  ELSE IF StartsWith(content, TripleBacktick)
       THEN EscapedTripleBacktick \o SubSeq(content, 4, Len(content))
  ELSE <<Head(content)>> \o escapeFirstTripleBacktick(Tail(content))

\* content.replace(/<bt><bt><bt>/g, ...): every run of three backticks gets a
\* backslash before each of them; the matches are taken left to right and do
\* not overlap
RECURSIVE escapeTripleBackticks(_)
escapeTripleBackticks(content) ==
  IF content = <<>> THEN <<>>
  ELSE IF StartsWith(content, TripleBacktick)
       THEN EscapedTripleBacktick
            \o escapeTripleBackticks(SubSeq(content, 4, Len(content)))
  ELSE <<Head(content)>> \o escapeTripleBackticks(Tail(content))

\* content.replace(/\u0000/g, "")
RECURSIVE StripNulls(_)
StripNulls(content) ==
  IF content = <<>> THEN <<>>
  ELSE IF Head(content) = "<0>" THEN StripNulls(Tail(content))
  ELSE <<Head(content)>> \o StripNulls(Tail(content))

\* the cases of getFileType's switch: <<extension, type name>>
FileTypeCases ==
  <<<<<<".","j","p","g">>, <<"I","m","a","g","e">>>>,
    <<<<".","j","p","e","g">>, <<"I","m","a","g","e">>>>,
    <<<<".","p","n","g">>, <<"I","m","a","g","e">>>>,
    <<<<".","g","i","f">>, <<"I","m","a","g","e">>>>,
    <<<<".","b","m","p">>, <<"I","m","a","g","e">>>>,
    <<<<".","w","e","b","p">>, <<"I","m","a","g","e">>>>,
    <<<<".","s","v","g">>, <<"S","V","G"," ","I","m","a","g","e">>>>,
    <<<<".","w","a","s","m">>, <<"W","e","b","A","s","s","e","m","b","l","y">>>>,
    <<<<".","p","d","f">>, <<"P","D","F">>>>,
    <<<<".","d","o","c">>, <<"W","o","r","d"," ","D","o","c","u","m","e","n","t">>>>,
    <<<<".","d","o","c","x">>, <<"W","o","r","d"," ","D","o","c","u","m","e","n","t">>>>,
    <<<<".","x","l","s">>, <<"E","x","c","e","l"," ","S","p","r","e","a","d","s","h","e","e","t">>>>,
    <<<<".","x","l","s","x">>, <<"E","x","c","e","l"," ","S","p","r","e","a","d","s","h","e","e","t">>>>,
    <<<<".","p","p","t">>, <<"P","o","w","e","r","P","o","i","n","t"," ","P","r","e","s","e","n","t","a","t","i","o","n">>>>,
    <<<<".","p","p","t","x">>, <<"P","o","w","e","r","P","o","i","n","t"," ","P","r","e","s","e","n","t","a","t","i","o","n">>>>,
    <<<<".","z","i","p">>, <<"C","o","m","p","r","e","s","s","e","d"," ","A","r","c","h","i","v","e">>>>,
    <<<<".","r","a","r">>, <<"C","o","m","p","r","e","s","s","e","d"," ","A","r","c","h","i","v","e">>>>,
    <<<<".","7","z">>, <<"C","o","m","p","r","e","s","s","e","d"," ","A","r","c","h","i","v","e">>>>,
    <<<<".","e","x","e">>, <<"E","x","e","c","u","t","a","b","l","e">>>>,
    <<<<".","d","l","l">>, <<"D","y","n","a","m","i","c","-","l","i","n","k"," ","L","i","b","r","a","r","y">>>>,
    <<<<".","s","o">>, <<"S","h","a","r","e","d"," ","O","b","j","e","c","t">>>>,
    <<<<".","d","y","l","i","b">>, <<"D","y","n","a","m","i","c"," ","L","i","b","r","a","r","y">>>>>>

BinaryTypeName == <<"B","i","n","a","r","y">>

SvgTypeName == <<"S","V","G"," ","I","m","a","g","e">>

getFileType(filePath) ==
  LET extension == ToLowerCase(Extname(filePath))
      hits == {i \in 1..Len(FileTypeCases) : FileTypeCases[i][1] = extension}
  IN IF hits = {} THEN BinaryTypeName
     ELSE FileTypeCases[CHOOSE i \in hits : TRUE][2]

DotSvg == <<".","s","v","g">>

\* the test if only the .svg ending counted
EndsWithSvg(filePath) == EndsWith(ToLowerCase(filePath), DotSvg)

shouldTreatAsBinary(filePath) ==
  \/ EndsWith(ToLowerCase(filePath), DotSvg)
  \/ getFileType(filePath) # BinaryTypeName

(***************************************************************************)
(* naturalSort: a.localeCompare(b, undefined, {numeric: true, sensitivity: *)
(* "base"}).  With sensitivity "base" only the primary weights count, so   *)
(* case is ignored; with numeric collation a run of digits is one unit     *)
(* that compares by its numeric value, leading zeros ignored.  The primary *)
(* order of the root collation puts white space and punctuation before     *)
(* digits and digits before letters.                                       *)
(***************************************************************************)
CollationOrder ==
  <<" ", "_", "-", ",", ";", ":", "!", "?", ".", "(", ")", "[", "]", "{", "}",
    "@", "*", "/", "\\", "&", "#", "%", "<bt>", "^", "+", "<", "=", ">", "|", "~",
    "$">> \o Digits \o LowerAlpha

PrimaryWeight(c) == IndexOf(CollationOrder, LowerChar(c))

\* the length of the run of digits that opens s
RECURSIVE DigitRun(_)
DigitRun(s) ==
  IF s # <<>> /\ IsDigit(Head(s)) THEN 1 + DigitRun(Tail(s)) ELSE 0

RECURSIVE DecimalValue(_, _)
DecimalValue(s, acc) ==
  IF s = <<>> THEN acc ELSE DecimalValue(Tail(s), acc * 10 + DigitVal(Head(s)))

Sign(n) == IF n < 0 THEN -1 ELSE IF n > 0 THEN 1 ELSE 0

\* the comparison by code units, which knows neither numbers nor case: what
\* Array.prototype.sort does without a comparator
RECURSIVE CodeUnitOrder(_, _)
CodeUnitOrder(a, b) ==
  IF a = <<>> /\ b = <<>> THEN 0
  ELSE IF a = <<>> THEN -1
  ELSE IF b = <<>> THEN 1
  ELSE IF Head(a) # Head(b)
       THEN LET ascii == <<"-", ".", "/">> \o Digits \o UpperAlpha \o LowerAlpha
            IN Sign(IndexOf(ascii, Head(a)) - IndexOf(ascii, Head(b)))
  ELSE CodeUnitOrder(Tail(a), Tail(b))

RECURSIVE naturalSort(_, _)
naturalSort(a, b) ==
  IF a = <<>> /\ b = <<>> THEN 0
  ELSE IF a = <<>> THEN -1
  ELSE IF b = <<>> THEN 1
  ELSE IF IsDigit(Head(a)) /\ IsDigit(Head(b)) THEN
    LET na == DigitRun(a)
        nb == DigitRun(b)
        va == DecimalValue(SubSeq(a, 1, na), 0)
        vb == DecimalValue(SubSeq(b, 1, nb), 0)
    IN IF va # vb THEN Sign(va - vb)
       ELSE naturalSort(SubSeq(a, na + 1, Len(a)), SubSeq(b, nb + 1, Len(b)))
  ELSE IF PrimaryWeight(Head(a)) # PrimaryWeight(Head(b))
       THEN Sign(PrimaryWeight(Head(a)) - PrimaryWeight(Head(b)))
  ELSE naturalSort(Tail(a), Tail(b))

(***************************************************************************)
(* The ignore package, for the patterns the model uses: a pattern without  *)
(* "/" and without a leading "!" matches a path when it matches one of the *)
(* path's segments (the file's name or the name of a directory above it),  *)
(* "*" standing for any run of characters; the package compares without    *)
(* regard to case.                                                         *)
(***************************************************************************)
RECURSIVE GlobMatch(_, _)
GlobMatch(pattern, name) ==
  IF pattern = <<>> THEN name = <<>>
  ELSE IF Head(pattern) = "*"
       THEN \/ GlobMatch(Tail(pattern), name)
            \/ name # <<>> /\ GlobMatch(pattern, Tail(name))
  ELSE /\ name # <<>>
       /\ \/ Head(pattern) = Head(name)
          \/ LowerChar(Head(pattern)) = LowerChar(Head(name))
       /\ GlobMatch(Tail(pattern), Tail(name))

\* s occurs in t as a run of consecutive pieces
IsInfix(s, t) ==
  \E k \in 0..(Len(t) - Len(s)) : SubSeq(t, k + 1, k + Len(s)) = s

\* the elements of a sequence, as a set
Range(s) == {s[i] : i \in 1..Len(s)}

\* ignore().add(patterns).ignores(relativePath)
Ignores(patterns, relativePath) ==
  \E name \in Range(Split(relativePath, "/")) :
    \E pattern \in Range(patterns) : GlobMatch(pattern, name)

createIgnoreFilter(ignorePatterns) == ignorePatterns

(***************************************************************************)
(* The environment: the working directory, the disk and the options of a   *)
(* call.  disk maps the absolute path of every regular file to what the    *)
(* file system reports for it:                                             *)
(*   kind "text"       isBinaryFile says no, the file can be read          *)
(*        "binary"     isBinaryFile says yes                               *)
(*        "sniffError" isBinaryFile throws                                 *)
(*        "huge"       a text file of more than 500MB                      *)
(*        "readError"  a text file whose fs.readFile throws                *)
(*        "statError"  fs.stat throws (the file went away, or no access)   *)
(***************************************************************************)
VARIABLES
  disk,                 \* absolute path -> [kind, content, size]
  options,              \* the options object processFiles is called with
  directories,          \* processFiles' directories
  pc,                   \* where the call is: "idle", "loop", "returned",
                        \* "content", "threw"
  allIgnorePatterns,    \* dir -> lines of its ignore file
  allMinifyPatterns,    \* dir -> lines of its minify file
  allFileEntries,       \* the FileEntry list, sorted
  idx,                  \* position of the for loop over allFileEntries
  includedCount,
  defaultIgnoredCount,
  customIgnoredCount,
  minifiedCount,
  binaryAndSvgFileCount,
  skippedFiles,
  includedFiles,
  processedFiles,
  result,               \* what processFiles returned
  digest,               \* what generateDigestContent returned
  log,                  \* history: one record per loop iteration of this run
  runNo,                \* history: which run over this disk this is
  previous,             \* history: the digest of the run before this one
  calls,                \* history: the metadata of each call of the callback
  previousRun,          \* history: sorted entries and options of the run before
  estimated,            \* history: the calls of estimateTokenCount
  fileStats,            \* what getFileStats returned
  generated,            \* what generateDigest returned and wrote
  proc,                 \* watch mode: "off", "running" or "exited"
  exitCause,            \* which call of process.exit, or the default
                        \* disposition of SIGINT, ended the process
  watchPc,              \* where watchFiles is
  isWritingFile,        \* the module's flag of line 31
  timeout,              \* debounce: a timer is pending
  sigint,               \* SIGINT has arrived
  polling,              \* the SIGINT handler's interval and timeout are set
  runs,                 \* run -> where its aggregateFiles call is, the
                        \* file its writeFile holds open, chunks written
  inodes,               \* file -> the chunks it holds
  tempFile,             \* the file the name outputPath + ".temp" leads to
  outputPath,           \* the file the name of the output leads to
  elapsed,              \* ticks since the last call of the debounced function
  fsEvents,             \* paths whose change, made by a run's own write,
                        \* chokidar has still to report
  burst,                \* history: the bursts of accepted events
  event                 \* history: the last event a watcher reported

vars ==
  <<disk, options, directories, pc, allIgnorePatterns, allMinifyPatterns,
    allFileEntries, idx, includedCount, defaultIgnoredCount,
    customIgnoredCount, minifiedCount, binaryAndSvgFileCount, skippedFiles,
    includedFiles, processedFiles, result, digest, log, runNo, previous,
    calls, previousRun, estimated, fileStats, generated, proc, exitCause, watchPc, isWritingFile, timeout,
    sigint, polling, runs, inodes, tempFile, outputPath, elapsed, fsEvents,
    burst, event>>

\* the state of watch mode and of the output directory
watchVars ==
  <<proc, exitCause, watchPc, isWritingFile, timeout, sigint, polling, runs,
    inodes, tempFile, outputPath, elapsed, fsEvents, burst, event>>

\* the state of one call of processFiles / generateDigestContent
digestVars ==
  <<disk, options, directories, pc, allIgnorePatterns, allMinifyPatterns,
    allFileEntries, idx, includedCount, defaultIgnoredCount,
    customIgnoredCount, minifiedCount, binaryAndSvgFileCount, skippedFiles,
    includedFiles, processedFiles, result, digest, log, runNo, previous,
    calls, previousRun, estimated, fileStats, generated>>

\* what the functions around generateDigestContent leave behind
apiVars == <<estimated, fileStats, generated>>

\* getActualWorkingDirectory()
CWD == <<"/", "w">>

\* the default names of the two pattern files
IgnoreFileName == <<".", "a", "i", "d", "i", "g", "e", "s", "t", "i", "g", "n", "o", "r", "e">>

MinifyFileName == <<".", "a", "i", "d", "i", "g", "e", "s", "t", "m", "i", "n", "i", "f", "y">>

\* where the operating system finds a path
Resolve(p) == IF IsAbsolute(p) THEN Normalize(p) ELSE PathJoin(CWD, p)

Exists(p) == Resolve(p) \in DOMAIN disk

FileAt(p) == disk[Resolve(p)]

\* glob("**/*", {nodir: true, dot: true, cwd: inputDir}): the paths, relative
\* to inputDir, of the regular files below it
Glob(inputDir) ==
  LET root == Resolve(inputDir) \o Slash
  IN {SubSeq(p, Len(root) + 1, Len(p)) :
        p \in {q \in DOMAIN disk : StartsWith(q, root)}}

\* every order in which the elements of a finite set can be listed
Orders(S) ==
  {<<>> \o s : s \in {t \in [1..Cardinality(S) -> S] :
                        \A i, j \in 1..Cardinality(S) : i # j => t[i] # t[j]}}

(***************************************************************************)
(* readIgnoreFile: the lines of dir/filename that are not blank and do not *)
(* start with "#"; no lines when the file does not exist; any other        *)
(* failure of the read is thrown.                                          *)
(***************************************************************************)
RECURSIVE KeepPatternLines(_)
KeepPatternLines(lines) ==
  IF lines = <<>> THEN <<>>
  ELSE IF Trim(Head(lines)) # <<>> /\ ~StartsWith(Head(lines), <<"#">>)
       THEN <<Head(lines)>> \o KeepPatternLines(Tail(lines))
  ELSE KeepPatternLines(Tail(lines))

\* readIgnoreFile without its filter: every line of the file
readIgnoreFileUnfiltered(inputDir, filename) ==
  LET filePath == PathJoin(inputDir, filename)
  IN IF ~Exists(filePath) THEN [ok |-> TRUE, lines |-> <<>>]
     ELSE IF FileAt(filePath).kind \in {"readError", "statError"}
          THEN [ok |-> FALSE, lines |-> <<>>]
     ELSE [ok |-> TRUE, lines |-> Split(FileAt(filePath).content, "\n")]

readIgnoreFile(inputDir, filename) ==
  LET filePath == PathJoin(inputDir, filename)
  IN IF ~Exists(filePath) THEN [ok |-> TRUE, lines |-> <<>>]
     ELSE IF FileAt(filePath).kind \in {"readError", "statError"}
          THEN [ok |-> FALSE, lines |-> <<>>]
     ELSE [ok |-> TRUE,
           lines |-> KeepPatternLines(Split(FileAt(filePath).content, "\n"))]

(***************************************************************************)
(* processFiles, lines 250-261: the sort and the display path.             *)
(***************************************************************************)
\* places e behind every element of the sorted list that does not compare
\* greater than it
RECURSIVE InsertEntry(_, _)
InsertEntry(sorted, e) ==
  IF sorted = <<>> THEN <<e>>
  ELSE IF naturalSort(Head(sorted).relativePath, e.relativePath) <= 0
       THEN <<Head(sorted)>> \o InsertEntry(Tail(sorted), e)
  ELSE <<e>> \o sorted

\* allFileEntries.sort((a, b) => naturalSort(a.relativePath, b.relativePath));
\* Array.prototype.sort is stable
RECURSIVE SortEntries(_)
SortEntries(entries) ==
  IF entries = <<>> THEN <<>>
  ELSE InsertEntry(SortEntries(SubSeq(entries, 1, Len(entries) - 1)),
                   entries[Len(entries)])

\* the FileEntry records of one directory, in the order glob listed its files
EntriesOf(inputDir, dirFiles) ==
  [i \in 1..Len(dirFiles) |->
     [relativePath |-> dirFiles[i],
      fullPath |-> PathJoin(inputDir, dirFiles[i]),
      sourceDir |-> inputDir]]

\* every list of entries the collection loop can build: directory after
\* directory, each in some order of glob's
RECURSIVE Collected(_)
Collected(dirs) ==
  IF dirs = <<>> THEN {<<>>}
  ELSE {EntriesOf(Head(dirs), o) \o rest :
          o \in Orders(Glob(Head(dirs))), rest \in Collected(Tail(dirs))}

\* the display path without the prefix of the root
RelativeDisplayPath(entry) == entry.relativePath

DisplayPath(entry) ==
  IF Len(directories) > 1
  THEN Basename(entry.sourceDir) \o Slash \o entry.relativePath
  ELSE entry.relativePath

\* the output path as the caller gave it
OutputAsGiven == options.outputFilePath

OutputAbsPath ==
  IF options.outputFilePath # <<>>
  THEN IF IsAbsolute(options.outputFilePath)
       THEN options.outputFilePath
       ELSE PathJoin(CWD, options.outputFilePath)
  ELSE <<>>

\* ignore().add([...DEFAULT_IGNORES, ...additionalDefaultIgnores]), or ignore()
DefaultIgnore ==
  IF options.useDefaultIgnores
  THEN DEFAULT_IGNORES \o options.additionalDefaultIgnores
  ELSE <<>>

(***************************************************************************)
(* processFiles, lines 269-275: the two ignore tiers.                      *)
(***************************************************************************)
IsDefaultIgnored(entry) ==
  \/ OutputAbsPath # <<>> /\ entry.fullPath = OutputAbsPath
  \/ options.useDefaultIgnores /\ Ignores(DefaultIgnore, entry.relativePath)

IsCustomIgnored(entry) ==
  Ignores(createIgnoreFilter(allIgnorePatterns[entry.sourceDir]),
          entry.relativePath)

\* customMinifies[sourceDir].ignores(relativePath)
ShouldMinify(entry) ==
  Ignores(allMinifyPatterns[entry.sourceDir], entry.relativePath)

(***************************************************************************)
(* The fragments.                                                          *)
(***************************************************************************)
Heading(displayPath) == <<"#", " ">> \o displayPath \o <<"\n", "\n">>

\* the extension shown for a minified file
MinifyExtension(relativePath) ==
  IF Len(Extname(relativePath)) > 1
  THEN SubSeq(Extname(relativePath), 2, Len(Extname(relativePath)))
  ELSE <<"u", "n", "k", "n", "o", "w", "n">>

DefaultText(entry) ==
  Heading(DisplayPath(entry))
  \o <<"This is a minified file of type: ", ".">>
  \o ToLowerCase(MinifyExtension(entry.relativePath))
  \o <<". The file exists but has been excluded from the codebase digest.",
       "\n", "\n">>

\* the text a caller's description callback returns instead of the default
CustomDescription == <<"<lo>", "m", "i", "n", "<hi>">>

\* minifyFileDescription(metadata), for the callbacks of the model: "default"
\* returns metadata.defaultText, "custom" a text of its own
InvokeCallback(callback, metadata) ==
  IF callback = "default" THEN metadata.defaultText ELSE CustomDescription

\* the metadata object of lines 299-305
MinifyMetadata(entry) ==
  [filePath |-> entry.fullPath,
   displayPath |-> DisplayPath(entry),
   extension |-> MinifyExtension(entry.relativePath),
   fileType |-> getFileType(entry.fullPath),
   defaultText |-> DefaultText(entry)]

\* the fragment if the callback's text got a line break of its own
MinifiedContentPlusNewline(entry) ==
  IF options.minifyFileDescription # "none"
  THEN InvokeCallback(options.minifyFileDescription, MinifyMetadata(entry))
       \o <<"\n">>
  ELSE DefaultText(entry)

MinifiedContent(entry) ==
  IF options.minifyFileDescription # "none"
  THEN InvokeCallback(options.minifyFileDescription, MinifyMetadata(entry))
  ELSE DefaultText(entry)

\* isTextFile: not binary and not .svg; false when the check throws
isTextFile(filePath) ==
  IF FileAt(filePath).kind = "sniffError" THEN FALSE
  ELSE /\ FileAt(filePath).kind # "binary"
       /\ ~EndsWith(ToLowerCase(filePath), DotSvg)

\* 500 * 1024 * 1024, the size above which a text file is not read
LargeFileLimit == 500 * 1024 * 1024

BytesPerMB == 1024 * 1024

\* (size / (1024 * 1024)).toFixed(2)
FileSizeMBFixed2(size) ==
  LET cents == (((size % BytesPerMB) * 100) + (BytesPerMB \div 2)) \div BytesPerMB
      whole == (size \div BytesPerMB) + (IF cents = 100 THEN 1 ELSE 0)
      frac == IF cents = 100 THEN 0 ELSE cents
  IN NatToString(whole) \o <<".">>
     \o <<Digits[(frac \div 10) + 1], Digits[(frac % 10) + 1]>>

TooLargeContent(entry) ==
  Heading(DisplayPath(entry))
  \o <<"This file was skipped because it is too large (">>
  \o FileSizeMBFixed2(FileAt(entry.fullPath).size)
  \o <<" MB) to process safely.", "\n", "\n">>

\* error.message of a failed fs.readFile
ReadErrorMessage == <<"EACCES: permission denied">>

ReadErrorContent(entry) ==
  Heading(DisplayPath(entry))
  \o <<"Error reading this file: ">> \o ReadErrorMessage \o <<"\n", "\n">>

\* the fenced block if the flag alone decided the collapse, whatever the
\* extension
TextContentCollapseAll(entry) ==
  LET extension == Extname(entry.relativePath)
      escaped == escapeTripleBackticks(StripNulls(FileAt(entry.fullPath).content))
      content ==
        IF options.removeWhitespaceFlag THEN removeWhitespace(escaped)
        ELSE escaped
  IN Heading(DisplayPath(entry))
     \o TripleBacktick
     \o (IF Len(extension) > 1 THEN SubSeq(extension, 2, Len(extension)) ELSE <<>>)
     \o <<"\n">> \o content \o <<"\n">> \o TripleBacktick \o <<"\n", "\n">>

\* lines 339-358: the fenced block of a text file
TextContent(entry) ==
  LET extension == Extname(entry.relativePath)
      escaped == escapeTripleBackticks(StripNulls(FileAt(entry.fullPath).content))
      content ==
        IF /\ options.removeWhitespaceFlag
           /\ IndexOf(WHITESPACE_DEPENDENT_EXTENSIONS, extension) = 0
        THEN removeWhitespace(escaped)
        ELSE escaped
  IN Heading(DisplayPath(entry))
     \o TripleBacktick
     \o (IF Len(extension) > 1 THEN SubSeq(extension, 2, Len(extension)) ELSE <<>>)
     \o <<"\n">> \o content \o <<"\n">> \o TripleBacktick \o <<"\n", "\n">>

\* lines 363-369: the note of a binary or SVG file
BinaryContent(entry) ==
  Heading(DisplayPath(entry))
  \o (IF getFileType(entry.fullPath) = SvgTypeName
      THEN <<"This is a file of the type: ">>
      ELSE <<"This is a binary file of the type: ">>)
  \o getFileType(entry.fullPath) \o <<"\n", "\n">>

(***************************************************************************)
(* processFiles, lines 383-401, and generateDigestContent.                 *)
(***************************************************************************)
\* processedFiles.reduce((sum, file) => sum + Buffer.byteLength(file.content), 0)
RECURSIVE TotalContentSize(_)
TotalContentSize(files) ==
  IF files = <<>> THEN 0
  ELSE ByteLength(Head(files).content) + TotalContentSize(Tail(files))

\* files.map((file) => file.content).join("")
JoinContents(files) == Concat([i \in 1..Len(files) |-> files[i].content])

\* 10 * 1024 * 1024, the size above which no tokens are estimated
MAX_FILE_SIZE == 10 * 1024 * 1024

\* countTokens of the tokenizer package; the model counts code units in its
\* place
CountTokens(text) == Len(text)

\* estimateTokenCount(text).gptTokens: Math.round(claudeTokens * 0.9048)
EstimatedGptTokens(text) == ((CountTokens(text) * 9048) + 5000) \div 10000

ZeroStats ==
  [totalFiles |-> 0, includedCount |-> 0, defaultIgnoredCount |-> 0,
   customIgnoredCount |-> 0, minifiedCount |-> 0, binaryAndSvgFileCount |-> 0,
   skippedFiles |-> 0, includedFiles |-> <<>>, fileSizeInBytes |-> 0]

NoResult == [files |-> <<>>, stats |-> ZeroStats]

\* before the first run there is no run to compare with
NoRun == [allFileEntries |-> <<>>, options |-> <<>>]

NoDigest ==
  [content |-> <<>>, files |-> <<>>, stats |-> ZeroStats]

(***************************************************************************)
(* The inputs of the model.                                                *)
(***************************************************************************)
RootA == <<"/", "w", "/", "a">>

RootB == <<"/", "w", "/", "b">>

\* a directory elsewhere with the same name as RootA
RootA2 == <<"/", "x", "/", "a">>

\* RootA, written relative to the working directory
RootRel == <<"a">>

F2 == <<"f", "2", ".", "j", "s">>

F10 == <<"f", "1", "0", ".", "j", "s">>

\* differs from F2 by case only
F2Upper == <<"F", "2", ".", "j", "s">>

N9Svg == <<"9", ".", "s", "v", "g">>

D10 == <<"1", "0", "-", "a", "/", "x", ".", "p", "y">>

Vendored == <<"n", "o", "d", "e", "_", "m", "o", "d", "u", "l", "e", "s", "/", "f", "2", ".", "j", "s">>

OutMd == <<"o", "u", "t", ".", "m", "d">>

\* a name whose extension getFileType knows, and an .svg in capitals
NotesDoc == <<"n", ".", "d", "o", "c">>

LogoSvg == <<"L", ".", "S", "V", "G">>

TextFile(content) ==
  [kind |-> "text", content |-> content, size |-> ByteLength(content)]

OtherFile(kind) ==
  [kind |-> kind, content |-> <<>>,
   size |-> IF kind = "huge" THEN LargeFileLimit + 1 ELSE 4]

PlainText == TextFile(<<"x", " ", "=", " ", "1">>)

OtherText == TextFile(<<"y", " ", "=", " ", "2">>)

RichText == TextFile(<<"a", "<2>", " ", "<bt>", "<bt>", "<bt>", "\n", " ", " ", "b", "<0>">>)

\* lines that open with three, four and five backticks, one of them only
\* once its null byte is gone
FenceText == TextFile(<<"<bt>", "<bt>", "<bt>", "\n", "<bt>", "<bt>", "<bt>", "<bt>", "x", "\n", "<bt>", "<0>", "<bt>", "<bt>", "\n", "<bt>", "<bt>", "<bt>", "<bt>", "<bt>">>)

\* an indented fence inside running text
IndentedFence == TextFile(<<"a", "\n", " ", " ", "<bt>", "<bt>", "<bt>", "\n", "b", " ", "<bt>", "<bt>", "<bt>">>)

IOFileStates ==
  {PlainText} \cup
  {OtherFile(k) : k \in {"binary", "sniffError", "huge", "readError", "statError"}}

IgnoreF2 == TextFile(<<"#", " ", "m", "i", "n", "e", "\n", "\n", "f", "2", ".", "j", "s", "\n">>)

MinifyJs == TextFile(<<"*", ".", "j", "s", "\n">>)

DefaultOptions ==
  [outputFilePath |-> <<>>, useDefaultIgnores |-> TRUE,
   removeWhitespaceFlag |-> FALSE, minifyFileDescription |-> "none",
   additionalDefaultIgnores |-> <<>>]

\* a comment, a line of white space, an indented "#", a pattern, an empty
\* line and a last pattern without a newline after it
IgnoreMixed == TextFile(<<"#", " ", "c", "\n", " ", "\t", "\n", " ", "#", "x", "\n", "f", "1", "0", ".", "j", "s", "\n", "\n", "f", "2", ".", "j", "s">>)

MinifyMixed == TextFile(<<"#", "m", "\n", "\n", "f", "2", ".", "j", "s", "\n", "f", "1", "0", ".", "j", "s", "\n">>)

\* a text file of 11 MB
BigText == TextFile(<<"<11MB>">>)

\* getFileStats has not returned
NoFileStats == [files |-> <<>>, totalGptTokens |-> 0, totalClaudeTokens |-> 0]

\* generateDigest has not returned
NotGenerated == [returned |-> "nothing", value |-> <<>>, written |-> {}]

\* the debounced rebuilds watch mode may start after its initial run
MaxRebuilds == 2

\* the writes fs.writeFile needs for the content of a digest
Chunks == 2

\* the runs of aggregateFiles: run 1 is the initial run of watchFiles
RunIds == 1..(MaxRebuilds + 1)

\* a name that leads to no file
NoFile == 0

\* the file the output name leads to before watch mode starts, if any
OldFile == MaxRebuilds + 2

\* the files of the output directory: run r creates file r
Files == RunIds \cup {OldFile}

\* a chunk no writer wrote: the gap of a write beyond the end of a file
Hole == 0

\* an aggregateFiles call that has not started
NotStarted == [pc |-> "none", fd |-> NoFile, written |-> 0]

\* SIGINT has not arrived
NoSigint == [received |-> FALSE, inProgress |-> {}]

\* the wait of the debounced rebuild, 500 ms, in ticks of 500 ms
DebounceWait == 1

\* no accepted event yet
NoBurst == [count |-> 0, many |-> FALSE, external |-> FALSE]

\* no event reported yet
NoEvent == [filePath |-> <<>>, accepted |-> FALSE, ignoredNow |-> FALSE]

\* watch mode is not in use
WatchOff ==
  /\ proc = "off"
  /\ exitCause = "none"
  /\ watchPc = "start"
  /\ isWritingFile = FALSE
  /\ timeout = FALSE
  /\ sigint = NoSigint
  /\ polling = FALSE
  /\ runs = [r \in RunIds |-> NotStarted]
  /\ inodes = [f \in Files |-> <<>>]
  /\ tempFile = NoFile
  /\ outputPath = NoFile
  /\ elapsed = DebounceWait
  /\ fsEvents = {}
  /\ burst = NoBurst
  /\ event = NoEvent

\* the states a file of that path may be in: a pattern file holds patterns
StateChoices(p, states, ignoreFiles, minifyFiles) ==
  IF Basename(p) = IgnoreFileName THEN ignoreFiles
  ELSE IF Basename(p) = MinifyFileName THEN minifyFiles
  ELSE states

\* the start of a call: a directory list from dirLists, a disk of at most
\* MaxFiles files below those directories, named from names in states from
\* states, with pattern files from ignoreFiles and minifyFiles, and the
\* options from optionSet
InitFrom(dirLists, names, states, ignoreFiles, minifyFiles, optionSet) ==
  /\ directories \in dirLists
  /\ options \in optionSet
  /\ LET roots == {Resolve(directories[i]) : i \in 1..Len(directories)}
         allNames ==
           names \cup (IF ignoreFiles = {} THEN {} ELSE {IgnoreFileName})
                 \cup (IF minifyFiles = {} THEN {} ELSE {MinifyFileName})
         candidates == {PathJoin(r, n) : r \in roots, n \in allNames}
     IN \E chosen \in {c \in SUBSET candidates : Cardinality(c) <= MaxFiles} :
          disk \in {d \in [chosen -> states \cup ignoreFiles \cup minifyFiles] :
                      \A p \in chosen :
                        d[p] \in StateChoices(p, states, ignoreFiles,
                                              minifyFiles)}
  /\ pc = "idle"
  /\ allIgnorePatterns = <<>>
  /\ allMinifyPatterns = <<>>
  /\ allFileEntries = <<>>
  /\ idx = 1
  /\ includedCount = 0
  /\ defaultIgnoredCount = 0
  /\ customIgnoredCount = 0
  /\ minifiedCount = 0
  /\ binaryAndSvgFileCount = 0
  /\ skippedFiles = 0
  /\ includedFiles = <<>>
  /\ processedFiles = <<>>
  /\ result = NoResult
  /\ digest = NoDigest
  /\ log = <<>>
  /\ runNo = 1
  /\ previous = NoDigest
  /\ calls = <<>>
  /\ previousRun = NoRun
  /\ estimated = <<>>
  /\ fileStats = NoFileStats
  /\ generated = NotGenerated
  /\ WatchOff

\* one directory whose files meet every outcome of the file system
InitIO ==
  InitFrom({<<RootA>>}, {F2, F10}, IOFileStates,
           {}, {MinifyJs, OtherFile("readError")},
           {[DefaultOptions EXCEPT !.minifyFileDescription = cb] :
              cb \in {"none", "custom"}})

\* file contents, file types and the whitespace option
InitContent ==
  InitFrom({<<RootA>>}, {F2, D10, N9Svg},
           {PlainText, RichText, OtherFile("binary")}, {}, {},
           {[DefaultOptions EXCEPT !.removeWhitespaceFlag = w] :
              w \in BOOLEAN})

\* the ignore tiers, the minify patterns and the output file
InitClassify ==
  InitFrom({<<RootA>>, <<RootRel>>}, {F2, Vendored, OutMd}, {PlainText},
           {IgnoreF2}, {MinifyJs},
           {[DefaultOptions EXCEPT !.useDefaultIgnores = u,
                                   !.outputFilePath = o,
                                   !.minifyFileDescription = cb] :
              u \in BOOLEAN,
              o \in {<<>>, PathJoin(RootRel, OutMd)},
              cb \in {"none", "default"}})

\* two directories, each with pattern files of its own
InitTwoRoots ==
  InitFrom({<<RootA, RootB>>}, {F2}, {PlainText}, {IgnoreF2}, {MinifyJs},
           {[DefaultOptions EXCEPT !.useDefaultIgnores = u] : u \in BOOLEAN})

\* one or two directories and names that exercise the sort
InitPaths ==
  InitFrom({<<RootA>>, <<RootA, RootA>>, <<RootA, RootB>>, <<RootA, RootA2>>},
           {F2, F10, F2Upper}, {PlainText, OtherText}, {}, {},
           {DefaultOptions})

\* text that holds fences of its own, with and without whitespace removal
InitFence ==
  InitFrom({<<RootA>>}, {F2, D10}, {FenceText, IndentedFence}, {}, {},
           {[DefaultOptions EXCEPT !.removeWhitespaceFlag = w] :
              w \in BOOLEAN})

\* what the sniffing says against what the name says
InitTypes ==
  InitFrom({<<RootA>>}, {F2, NotesDoc, LogoSvg},
           {PlainText, OtherFile("binary"), OtherFile("sniffError")}, {}, {},
           {DefaultOptions})

\* patterns handed over in additionalDefaultIgnores, with the default tier
\* on and off
InitAdditional ==
  InitFrom({<<RootA>>}, {F2, F10}, {PlainText}, {}, {},
           {[DefaultOptions EXCEPT !.additionalDefaultIgnores = <<F2>>,
                                   !.useDefaultIgnores = u] : u \in BOOLEAN})

\* a file large enough for a digest of more than 10 MB, with and without
\* an output file
InitLarge ==
  InitFrom({<<RootA>>}, {F2, F10}, {PlainText, BigText}, {}, {},
           {DefaultOptions, [DefaultOptions EXCEPT !.outputFilePath = OutMd]})

\* pattern files with comments, blank lines and several patterns
InitPatterns ==
  InitFrom({<<RootA>>}, {F2, F10}, {PlainText}, {IgnoreMixed}, {MinifyMixed},
           {DefaultOptions})

Init ==
  \/ InitLarge \/ InitPatterns
  \/ InitIO \/ InitContent \/ InitClassify \/ InitTwoRoots \/ InitPaths
  \/ InitFence \/ InitTypes \/ InitAdditional

(***************************************************************************)
(* processFiles, lines 136-251: the pattern files are read, the            *)
(* directories are listed and the entries are sorted.                      *)
(***************************************************************************)
DirSet == {directories[i] : i \in 1..Len(directories)}

Scan ==
  /\ pc = "idle"
  /\ \E ig \in {[d \in DirSet |-> readIgnoreFile(d, IgnoreFileName)]} :
     \E mf \in {[d \in DirSet |-> readIgnoreFile(d, MinifyFileName)]} :
        IF \E d \in DirSet : ~ig[d].ok \/ ~mf[d].ok
        THEN /\ pc' = "threw"
             /\ UNCHANGED <<allIgnorePatterns, allMinifyPatterns,
                            allFileEntries>>
        ELSE /\ pc' = "loop"
             /\ allIgnorePatterns' = [d \in DirSet |-> ig[d].lines]
             /\ allMinifyPatterns' = [d \in DirSet |-> mf[d].lines]
             /\ \E entries \in Collected(directories) :
                  allFileEntries' = SortEntries(entries)
  /\ UNCHANGED <<watchVars, apiVars, disk, options, directories, idx, includedCount,
                 defaultIgnoredCount, customIgnoredCount, minifiedCount,
                 binaryAndSvgFileCount, skippedFiles, includedFiles,
                 processedFiles, result, digest, log, runNo, previous,
                 calls, previousRun>>

(***************************************************************************)
(* processFiles, lines 253-381: one iteration of the loop over the sorted  *)
(* entries.  `outcome` names the branch taken, `fileContent` the fragment  *)
(* the branch built, `consulted` whether the minify matcher was asked and  *)
(* `called` whether the description callback was invoked.                  *)
(***************************************************************************)
LogRecord(entry, outcome, fileContent, consulted, called) ==
  [entry |-> entry, outcome |-> outcome, fileContent |-> fileContent,
   consulted |-> consulted, called |-> called]

\* the branch taken if the minify matcher were asked before the ignore tiers
OutcomeMinifyFirst(entry) ==
  IF FileAt(entry.fullPath).kind # "statError" /\ ShouldMinify(entry)
  THEN "minified"
  ELSE IF IsDefaultIgnored(entry) THEN "defaultIgnored"
  ELSE IF IsCustomIgnored(entry) THEN "customIgnored"
  ELSE IF FileAt(entry.fullPath).kind = "statError" THEN "threw"
  ELSE IF isTextFile(entry.fullPath) /\ ~shouldTreatAsBinary(entry.fullPath)
       THEN IF FileAt(entry.fullPath).size > LargeFileLimit THEN "tooLarge"
            ELSE IF FileAt(entry.fullPath).kind = "readError" THEN "readFailed"
            ELSE "text"
  ELSE "binary"

\* the branch of the loop body the entry takes
Outcome(entry) ==
  IF IsDefaultIgnored(entry) THEN "defaultIgnored"
  ELSE IF IsCustomIgnored(entry) THEN "customIgnored"
  ELSE IF FileAt(entry.fullPath).kind = "statError" THEN "threw"
  ELSE IF ShouldMinify(entry) THEN "minified"
  ELSE IF isTextFile(entry.fullPath) /\ ~shouldTreatAsBinary(entry.fullPath)
       THEN IF FileAt(entry.fullPath).size > LargeFileLimit THEN "tooLarge"
            ELSE IF FileAt(entry.fullPath).kind = "readError" THEN "readFailed"
            ELSE "text"
  ELSE "binary"

\* the fragment the branch builds
FileContent(entry, outcome) ==
  CASE outcome = "minified" -> MinifiedContent(entry)
    [] outcome = "tooLarge" -> TooLargeContent(entry)
    [] outcome = "readFailed" -> ReadErrorContent(entry)
    [] outcome = "text" -> TextContent(entry)
    [] outcome = "binary" -> BinaryContent(entry)
    [] OTHER -> <<>>

\* the branches that count the file as included and put its display path
\* into includedFiles
Included(outcome) == outcome \in {"minified", "text", "binary"}

\* the push of lines 376-379 reached by every file that passed the ignore
\* tiers, the skipped ones too
PushesEvery(outcome) ==
  outcome \notin {"defaultIgnored", "customIgnored", "threw"}

\* the branches that reach the push of lines 376-379; the two skipping
\* branches leave the iteration with `continue`
Pushes(outcome) == outcome \in {"minified", "text", "binary"}

\* the calls of the callback an iteration would make if the description
\* were fetched for every file that passed the ignore tiers
CallsMadeEagerly(entry, outcome) ==
  IF /\ outcome \notin {"defaultIgnored", "customIgnored", "threw"}
     /\ options.minifyFileDescription # "none"
  THEN <<MinifyMetadata(entry)>>
  ELSE <<>>

\* the calls of the callback the iteration makes, lines 298-305: one on the
\* minified branch when a callback is given
CallsMade(entry, outcome) ==
  IF outcome = "minified" /\ options.minifyFileDescription # "none"
  THEN <<MinifyMetadata(entry)>>
  ELSE <<>>

ProcessEntry ==
  /\ pc = "loop"
  /\ idx <= Len(allFileEntries)
  /\ \E entry \in {allFileEntries[idx]} :
     \E outcome \in {Outcome(entry)} :
     \E fileContent \in {FileContent(entry, outcome)} :
     \E displayPath \in {DisplayPath(entry)} :
        /\ pc' = IF outcome = "threw" THEN "threw" ELSE "loop"
        /\ idx' = IF outcome = "threw" THEN idx ELSE idx + 1
        /\ defaultIgnoredCount' =
             defaultIgnoredCount + (IF outcome = "defaultIgnored" THEN 1 ELSE 0)
        /\ customIgnoredCount' =
             customIgnoredCount + (IF outcome = "customIgnored" THEN 1 ELSE 0)
        /\ minifiedCount' =
             minifiedCount + (IF outcome = "minified" THEN 1 ELSE 0)
        /\ binaryAndSvgFileCount' =
             binaryAndSvgFileCount + (IF outcome = "binary" THEN 1 ELSE 0)
        /\ skippedFiles' =
             skippedFiles
             + (IF outcome \in {"tooLarge", "readFailed"} THEN 1 ELSE 0)
        /\ includedCount' = includedCount + (IF Included(outcome) THEN 1 ELSE 0)
        /\ includedFiles' =
             IF Included(outcome) THEN Append(includedFiles, displayPath)
             ELSE includedFiles
        /\ processedFiles' =
             IF Pushes(outcome)
             THEN Append(processedFiles,
                         [fileName |-> displayPath, content |-> fileContent])
             ELSE processedFiles
        /\ calls' = calls \o CallsMade(entry, outcome)
        /\ log' =
             Append(log,
               LogRecord(entry, outcome, fileContent,
                 outcome \notin {"defaultIgnored", "customIgnored", "threw"},
                 CallsMade(entry, outcome) # <<>>))
  /\ UNCHANGED <<watchVars, apiVars, disk, options, directories, allIgnorePatterns,
                 allMinifyPatterns, allFileEntries, result, digest, runNo,
                 previous, previousRun>>

\* lines 383-401: the loop is over, the files and the stats are returned
Return ==
  /\ pc = "loop"
  /\ idx > Len(allFileEntries)
  /\ pc' = "returned"
  /\ result' =
       [files |-> processedFiles,
        stats |->
          [totalFiles |-> Len(allFileEntries),
           includedCount |-> includedCount,
           defaultIgnoredCount |-> defaultIgnoredCount,
           customIgnoredCount |-> customIgnoredCount,
           minifiedCount |-> minifiedCount,
           binaryAndSvgFileCount |-> binaryAndSvgFileCount,
           skippedFiles |-> skippedFiles,
           includedFiles |-> includedFiles,
           fileSizeInBytes |-> TotalContentSize(processedFiles)]]
  /\ UNCHANGED <<watchVars, apiVars, disk, options, directories, allIgnorePatterns,
                 allMinifyPatterns, allFileEntries, idx, includedCount,
                 defaultIgnoredCount, customIgnoredCount, minifiedCount,
                 binaryAndSvgFileCount, skippedFiles, includedFiles,
                 processedFiles, digest, log, runNo, previous, calls,
                 previousRun>>

\* a call of estimateTokenCount: the function that made it, and the bytes of
\* the digest of the files at hand
EstimatorCall(by, digestSize) == [by |-> by, digestSize |-> digestSize]

\* generateDigestContent, lines 439-465, after its call of processFiles
GenerateDigestContent ==
  /\ pc = "returned"
  /\ pc' = "content"
  /\ \E output \in {JoinContents(result.files)} :
     \E fileSizeInBytes \in {ByteLength(output)} :
        /\ digest' =
          [content |-> output,
           files |-> result.files,
           stats |->
             [k \in DOMAIN result.stats \cup {"estimatedTokens"} |->
                IF k = "estimatedTokens"
                THEN IF fileSizeInBytes <= MAX_FILE_SIZE
                     THEN EstimatedGptTokens(output) ELSE 0
                ELSE IF k = "fileSizeInBytes" THEN fileSizeInBytes
                ELSE result.stats[k]]]
        /\ estimated' =
             IF fileSizeInBytes <= MAX_FILE_SIZE
             THEN Append(estimated, EstimatorCall("generateDigestContent",
                                                  fileSizeInBytes))
             ELSE estimated
  /\ UNCHANGED <<watchVars, fileStats, generated, disk, options, directories, allIgnorePatterns,
                 allMinifyPatterns, allFileEntries, idx, includedCount,
                 defaultIgnoredCount, customIgnoredCount, minifiedCount,
                 binaryAndSvgFileCount, skippedFiles, includedFiles,
                 processedFiles, result, log, runNo, previous, calls,
                 previousRun>>

\* getFileStats, the callback of files.map: the entry of a file, its size
\* taken as the length of the string
FileStatCodeUnits(file) ==
  [path |-> file.fileName, sizeInBytes |-> Len(file.content)]

\* getFileStats, the callback of files.map: the entry of a file
FileStat(file) ==
  [path |-> file.fileName, sizeInBytes |-> ByteLength(file.content)]

\* places e behind every entry of the list that is not smaller than it
RECURSIVE InsertBySize(_, _)
InsertBySize(sorted, e) ==
  IF sorted = <<>> THEN <<e>>
  ELSE IF e.sizeInBytes > Head(sorted).sizeInBytes THEN <<e>> \o sorted
  ELSE <<Head(sorted)>> \o InsertBySize(Tail(sorted), e)

\* fileStats.sort((a, b) => b.sizeInBytes - a.sizeInBytes), a stable sort
RECURSIVE SortBySize(_)
SortBySize(entries) ==
  IF entries = <<>> THEN <<>>
  ELSE InsertBySize(SortBySize(SubSeq(entries, 1, Len(entries) - 1)),
                    entries[Len(entries)])

\* totalClaudeTokens and totalGptTokens: the sums over the files
RECURSIVE TotalClaudeTokens(_)
TotalClaudeTokens(files) ==
  IF files = <<>> THEN 0
  ELSE CountTokens(Head(files).content) + TotalClaudeTokens(Tail(files))

RECURSIVE TotalGptTokens(_)
TotalGptTokens(files) ==
  IF files = <<>> THEN 0
  ELSE EstimatedGptTokens(Head(files).content) + TotalGptTokens(Tail(files))

\* getFileStats, lines 985-1032, after its call of processFiles, which it
\* makes with removeWhitespaceFlag false: it estimates the tokens of every
\* file and returns the entries, largest first
GetFileStats ==
  /\ pc = "returned"
  /\ ~options.removeWhitespaceFlag
  /\ pc' = "stats"
  /\ fileStats' =
       [files |-> SortBySize([i \in 1..Len(result.files) |->
                                FileStat(result.files[i])]),
        totalGptTokens |-> TotalGptTokens(result.files),
        totalClaudeTokens |-> TotalClaudeTokens(result.files)]
  /\ estimated' =
       estimated \o [i \in 1..Len(result.files) |->
                       EstimatorCall("getFileStats",
                                     ByteLength(JoinContents(result.files)))]
  /\ UNCHANGED <<watchVars, generated, disk, options, directories,
                 allIgnorePatterns, allMinifyPatterns, allFileEntries, idx,
                 includedCount, defaultIgnoredCount, customIgnoredCount,
                 minifiedCount, binaryAndSvgFileCount, skippedFiles,
                 includedFiles, processedFiles, result, digest, log, runNo,
                 previous, calls, previousRun>>

\* generateDigest, after its call of generateDigestContent: it returns the
\* content when outputFile is null, and otherwise awaits writeDigestToFile,
\* which writes the content under the output path and then estimates the
\* tokens for its report unless the stats say the digest is too large, or
\* throws, with the temp file left behind or not
generateDigest ==
  /\ pc = "content"
  /\ pc' = "done"
  /\ IF options.outputFilePath = <<>>
       THEN /\ generated' = [returned |-> "string", value |-> digest.content,
                             written |-> {}]
            /\ UNCHANGED estimated
       ELSE \/ /\ generated' =
                    [returned |-> "undefined", value |-> <<>>,
                     written |-> {[path |-> OutputAbsPath,
                                   content |-> digest.content]}]
               /\ estimated' =
                    IF digest.stats.fileSizeInBytes > MAX_FILE_SIZE
                    THEN estimated
                    ELSE Append(estimated,
                                EstimatorCall("writeDigestToFile",
                                              digest.stats.fileSizeInBytes))
            \/ /\ \E left \in {{}, {[path |-> OutputAbsPath
                                                \o <<".", "t", "e", "m", "p">>,
                                      content |-> digest.content]}} :
                    generated' = [returned |-> "threw", value |-> <<>>,
                                  written |-> left]
               /\ UNCHANGED estimated
  /\ UNCHANGED <<watchVars, fileStats, disk, options, directories,
                 allIgnorePatterns, allMinifyPatterns, allFileEntries, idx,
                 includedCount, defaultIgnoredCount, customIgnoredCount,
                 minifiedCount, binaryAndSvgFileCount, skippedFiles,
                 includedFiles, processedFiles, result, digest, log, runNo,
                 previous, calls, previousRun>>

\* the state in which a further call over the unchanged disk starts
StartAgain(nextOptions) ==
  /\ pc = "content"
  /\ runNo < MaxRuns
  /\ runNo' = runNo + 1
  /\ previous' = digest
  /\ previousRun' = [allFileEntries |-> allFileEntries, options |-> options]
  /\ options' = nextOptions
  /\ pc' = "idle"
  /\ allIgnorePatterns' = <<>>
  /\ allMinifyPatterns' = <<>>
  /\ allFileEntries' = <<>>
  /\ idx' = 1
  /\ includedCount' = 0
  /\ defaultIgnoredCount' = 0
  /\ customIgnoredCount' = 0
  /\ minifiedCount' = 0
  /\ binaryAndSvgFileCount' = 0
  /\ skippedFiles' = 0
  /\ includedFiles' = <<>>
  /\ processedFiles' = <<>>
  /\ result' = NoResult
  /\ digest' = NoDigest
  /\ log' = <<>>
  /\ calls' = <<>>
  /\ estimated' = <<>>
  /\ UNCHANGED <<watchVars, fileStats, generated, disk, directories>>

\* the same call is made again over the unchanged disk
Rerun == StartAgain(options)

\* the call is made again without the callback that returned defaultText
RerunWithoutCallback ==
  /\ options.minifyFileDescription = "default"
  /\ StartAgain([options EXCEPT !.minifyFileDescription = "none"])

Next ==
  \/ Scan \/ ProcessEntry \/ Return \/ GenerateDigestContent
  \/ Rerun \/ RerunWithoutCallback
  \/ GetFileStats \/ generateDigest

Spec == Init /\ [][Next]_vars


\* ---------------------------------------------------------------------
\* Watch mode: watchFiles, the debounced rebuild, aggregateFiles,
\* writeDigestToFile and the SIGINT handler
\* ---------------------------------------------------------------------

\* no call of processFiles is modelled while watch mode runs
DigestIdle ==
  /\ pc = "watch"
  /\ allIgnorePatterns = <<>>
  /\ allMinifyPatterns = <<>>
  /\ allFileEntries = <<>>
  /\ idx = 1
  /\ includedCount = 0
  /\ defaultIgnoredCount = 0
  /\ customIgnoredCount = 0
  /\ minifiedCount = 0
  /\ binaryAndSvgFileCount = 0
  /\ skippedFiles = 0
  /\ includedFiles = <<>>
  /\ processedFiles = <<>>
  /\ result = NoResult
  /\ digest = NoDigest
  /\ log = <<>>
  /\ runNo = 1
  /\ previous = NoDigest
  /\ calls = <<>>
  /\ previousRun = NoRun
  /\ estimated = <<>>
  /\ fileStats = NoFileStats
  /\ generated = NotGenerated

\* an ignore file without patterns
IgnoreNone == TextFile(<<>>)

\* the contents the ignore file of the watched directory goes through
IgnoreVersions == {IgnoreF2, IgnoreNone}

\* the content of a complete digest written by one writer
WholeContent(writer) == [i \in 1..Chunks |-> writer]

\* watchFiles is called for a directory with an ignore file and an output
\* outside of it that does not exist yet, or for the working directory, which
\* holds the output of an earlier run
InitWatch ==
  /\ DigestIdle
  /\ options = [DefaultOptions EXCEPT !.outputFilePath = OutMd]
  /\ \/ /\ directories = <<RootA>>
        /\ disk = [p \in {PathJoin(RootA, IgnoreFileName)} |-> IgnoreF2]
        /\ outputPath = NoFile
     \/ /\ directories = <<CWD>>
        /\ disk = <<>>
        /\ outputPath = OldFile
  /\ elapsed = DebounceWait
  /\ fsEvents = {}
  /\ burst = NoBurst
  /\ event = NoEvent
  /\ proc = "running"
  /\ exitCause = "none"
  /\ watchPc = "start"
  /\ isWritingFile = FALSE
  /\ timeout = FALSE
  /\ sigint = NoSigint
  /\ polling = FALSE
  /\ runs = [r \in RunIds |-> NotStarted]
  /\ inodes = [f \in Files |->
                 IF f = OldFile /\ outputPath = OldFile
                   THEN WholeContent(OldFile) ELSE <<>>]
  /\ tempFile = NoFile

\* what one call of processFiles keeps, apart from the disk and the patterns
processVars ==
  <<options, directories, pc, allFileEntries, idx, includedCount,
    defaultIgnoredCount, customIgnoredCount, minifiedCount,
    binaryAndSvgFileCount, skippedFiles, includedFiles, processedFiles,
    result, digest, log, runNo, previous, calls, previousRun, estimated,
    fileStats, generated>>

\* the source file of the first input directory that changes from outside
SourcePath == PathJoin(directories[1], F2)

\* the temp file of writeDigestToFile
TempPath == OutputAbsPath \o <<".", "t", "e", "m", "p">>

\* the paths watchers report events for
EventPaths == {SourcePath, TempPath, OutputAbsPath}

\* the watchers of the input directories are set up and filePath lies in one
\* of the directories: its change will be reported
Reported(filePath) ==
  IF /\ watchPc \in {"watching", "handling"}
     /\ \E i \in 1..Len(directories) :
          StartsWith(filePath, directories[i] \o Slash)
  THEN {filePath} ELSE {}

\* defaultIgnore.ignores(relativePath) for the relative paths of the events
DefaultIgnoredNames ==
  {n \in {F2, OutMd, OutMd \o <<".", "t", "e", "m", "p">>,
          <<"a", "/">> \o F2} :
     Ignores(DEFAULT_IGNORES, n)}

\* path.relative(from, to) for a path to below from
Relative(from, to) == SubSeq(to, Len(from) + 2, Len(to))

\* a directory of the path, not its first segment, has a name that starts
\* with a dot: the test of /\/\.[^\/]+\//
HasDotDirectory(filePath) ==
  \E i \in 2..(Len(Split(filePath, "/")) - 1) :
    /\ Len(Split(filePath, "/")[i]) >= 2
    /\ Head(Split(filePath, "/")[i]) = "."

\* the first input directory the path starts with, or the empty string
MatchingInputDir(filePath) ==
  IF \E i \in 1..Len(directories) : StartsWith(filePath, directories[i])
  THEN directories[CHOOSE i \in 1..Len(directories) :
                     /\ StartsWith(filePath, directories[i])
                     /\ \A j \in 1..(i - 1) :
                          ~StartsWith(filePath, directories[j])]
  ELSE <<>>

\* shouldIgnorePath of watchFiles, with the patterns of the custom filters it
\* closes over
shouldIgnorePath(customIgnores, filePath) ==
  \/ filePath = <<>>
  \/ IsInfix(<<"n", "o", "d", "e", "_", "m", "o", "d", "u", "l", "e", "s">>,
             filePath)
  \/ HasDotDirectory(filePath)
  \/ MatchingInputDir(filePath) = <<>>
  \/ Relative(MatchingInputDir(filePath), filePath) = <<>>
  \/ filePath = OutputAbsPath
  \/ /\ options.useDefaultIgnores
     /\ Relative(MatchingInputDir(filePath), filePath) \in DefaultIgnoredNames
  \/ Ignores(createIgnoreFilter(customIgnores[MatchingInputDir(filePath)]),
             Relative(MatchingInputDir(filePath), filePath))

\* the patterns a read of the ignore files would give now
PatternsOnDisk == [d \in DirSet |-> readIgnoreFile(d, IgnoreFileName).lines]

\* the runs of aggregateFiles that have started and not finished
InProgress ==
  {r \in RunIds : runs[r].pc \notin {"none", "done", "threw"}}

\* a write of one chunk at a position of a file: a position beyond the end
\* leaves a gap
WriteAt(content, pos, chunk) ==
  [i \in 1..(IF pos > Len(content) THEN pos ELSE Len(content)) |->
     IF i = pos THEN chunk
     ELSE IF i <= Len(content) THEN content[i] ELSE Hole]

\* process.exit
Exit(cause) ==
  /\ proc' = "exited"
  /\ exitCause' = cause

\* run r moves on
Goto(r, next) == runs' = [runs EXCEPT ![r].pc = next]

\* a step of writeDigestToFile throws: its catch logs and rethrows, and the
\* catch of aggregateFiles ends the process
Throw(r) ==
  /\ Goto(r, "threw")
  /\ Exit("error")

\* watchFiles starts the initial run
WatchFiles ==
  /\ proc = "running"
  /\ watchPc = "start"
  /\ watchPc' = "initial"
  /\ isWritingFile' = TRUE
  /\ Goto(1, "generate")
  /\ UNCHANGED <<elapsed, fsEvents, burst, event, digestVars, proc, exitCause, timeout, sigint, polling,
                 inodes, tempFile, outputPath>>

\* aggregateFiles awaits generateDigestContent, which returns the content or
\* throws
GenerateDigest(r) ==
  /\ proc = "running"
  /\ runs[r].pc = "generate"
  /\ \/ /\ Goto(r, "mkdir")
        /\ UNCHANGED <<proc, exitCause>>
     \/ Throw(r)
  /\ UNCHANGED <<elapsed, fsEvents, burst, event, digestVars, watchPc, isWritingFile, timeout, sigint,
                 polling, inodes, tempFile, outputPath>>

\* writeDigestToFile awaits fs.mkdir of the output directory
Mkdir(r) ==
  /\ proc = "running"
  /\ runs[r].pc = "mkdir"
  /\ \/ /\ Goto(r, "open")
        /\ UNCHANGED <<proc, exitCause>>
     \/ Throw(r)
  /\ UNCHANGED <<elapsed, fsEvents, burst, event, digestVars, watchPc, isWritingFile, timeout, sigint,
                 polling, inodes, tempFile, outputPath>>

\* fs.writeFile opens the temp name with flag "w": it truncates the file the
\* name leads to, or creates one
OpenTemp(r) ==
  /\ proc = "running"
  /\ runs[r].pc = "open"
  /\ \/ /\ \E f \in {IF tempFile = NoFile THEN r ELSE tempFile} :
             /\ runs' = [runs EXCEPT ![r].pc = "write", ![r].fd = f]
             /\ inodes' = [inodes EXCEPT ![f] = <<>>]
             /\ tempFile' = f
        /\ fsEvents' = fsEvents \cup Reported(TempPath)
        /\ UNCHANGED <<proc, exitCause>>
     \/ /\ Throw(r)
        /\ UNCHANGED <<inodes, tempFile, fsEvents>>
  /\ UNCHANGED <<elapsed, burst, event, digestVars, watchPc, isWritingFile,
                 timeout, sigint, polling, outputPath>>

\* fs.writeFile writes the next chunk into the file it opened, and closes
\* the file after the last one; a write may fail
WriteChunk(r) ==
  /\ proc = "running"
  /\ runs[r].pc = "write"
  /\ \/ /\ inodes' = [inodes EXCEPT ![runs[r].fd] =
                        WriteAt(@, runs[r].written + 1, r)]
        /\ runs' = [runs EXCEPT
                      ![r].written = @ + 1,
                      ![r].pc = IF runs[r].written + 1 = Chunks
                                  THEN "stat" ELSE "write"]
        /\ UNCHANGED <<proc, exitCause>>
     \/ /\ Throw(r)
        /\ UNCHANGED inodes
  /\ UNCHANGED <<elapsed, fsEvents, burst, event, digestVars, watchPc, isWritingFile, timeout, sigint,
                 polling, tempFile, outputPath>>

\* fs.stat of the temp name, and the comparison of its size with the byte
\* length of the content
StatTemp(r) ==
  /\ proc = "running"
  /\ runs[r].pc = "stat"
  /\ IF tempFile = NoFile
       THEN Throw(r)
       ELSE /\ Goto(r, IF Len(inodes[tempFile]) = Chunks
                         THEN "rename" ELSE "unlink")
            /\ UNCHANGED <<proc, exitCause>>
  /\ UNCHANGED <<elapsed, fsEvents, burst, event, digestVars, watchPc, isWritingFile, timeout, sigint,
                 polling, inodes, tempFile, outputPath>>

\* the sizes differ: fs.unlink of the temp name, its failure swallowed, then
\* the throw of "File size mismatch after writing"
UnlinkTemp(r) ==
  /\ proc = "running"
  /\ runs[r].pc = "unlink"
  /\ tempFile' = NoFile
  /\ Throw(r)
  /\ UNCHANGED <<elapsed, fsEvents, burst, event, digestVars, watchPc, isWritingFile, timeout, sigint,
                 polling, inodes, outputPath>>

\* fs.rename of the temp name to the output name
RenameTemp(r) ==
  /\ proc = "running"
  /\ runs[r].pc = "rename"
  /\ \/ /\ tempFile # NoFile
        /\ outputPath' = tempFile
        /\ tempFile' = NoFile
        /\ Goto(r, "return")
        /\ fsEvents' = fsEvents \cup Reported(OutputAbsPath)
        /\ UNCHANGED <<proc, exitCause>>
     \/ /\ Throw(r)
        /\ UNCHANGED <<tempFile, outputPath, fsEvents>>
  /\ UNCHANGED <<elapsed, burst, event, digestVars, watchPc, isWritingFile,
                 timeout, sigint, polling, inodes>>

\* writeDigestToFile and aggregateFiles return; the code after the await
\* clears the flag, and watchFiles goes on after its initial run
RunReturns(r) ==
  /\ proc = "running"
  /\ runs[r].pc = "return"
  /\ Goto(r, "done")
  /\ isWritingFile' = FALSE
  /\ watchPc' = IF r = 1 THEN "setup" ELSE watchPc
  /\ UNCHANGED <<elapsed, fsEvents, burst, event, digestVars, proc, exitCause, timeout, sigint, polling,
                 inodes, tempFile, outputPath>>

\* watchFiles reads the pattern files of every input directory, builds the
\* filters and sets up the chokidar watchers of the directories
SetupWatchers ==
  /\ proc = "running"
  /\ watchPc = "setup"
  /\ watchPc' = "watching"
  /\ allIgnorePatterns' =
       [d \in DirSet |-> readIgnoreFile(d, IgnoreFileName).lines]
  /\ allMinifyPatterns' =
       [d \in DirSet |-> readIgnoreFile(d, MinifyFileName).lines]
  /\ UNCHANGED <<elapsed, fsEvents, burst, event, processVars, disk, proc,
                 exitCause, isWritingFile, timeout, sigint, polling, runs,
                 inodes, tempFile, outputPath>>

\* watchFiles sets up the watchers of the pattern files, awaiting fs.access
\* for each, and then registers the SIGINT handler
InstallSigintHandler ==
  /\ proc = "running"
  /\ watchPc = "watching"
  /\ watchPc' = "handling"
  /\ UNCHANGED <<elapsed, fsEvents, burst, event, digestVars, proc, exitCause, isWritingFile, timeout,
                 sigint, polling, runs, inodes, tempFile, outputPath>>

\* the timer of debounce has run its wait
TimerDueAtOnce == timeout

TimerDue == timeout /\ elapsed = DebounceWait

\* a call of the function debounce returns: it clears the pending timer and
\* sets a new one.  A call less than the wait after the one before belongs
\* to the same burst.
DebouncedCall(external) ==
  /\ timeout' = TRUE
  /\ elapsed' = 0
  /\ IF burst.count > 0 /\ elapsed < DebounceWait
       THEN burst' = [burst EXCEPT !.many = TRUE,
                                   !.external = @ \/ external]
       ELSE /\ burst.count < MaxRebuilds
            /\ burst' = [count |-> burst.count + 1, many |-> FALSE,
                         external |-> external]

\* time passes
Tick ==
  /\ proc = "running"
  /\ burst.count > 0
  /\ elapsed < DebounceWait
  /\ elapsed' = elapsed + 1
  /\ UNCHANGED <<fsEvents, burst, event, digestVars, proc, exitCause,
                 watchPc, isWritingFile, timeout, sigint, polling, runs,
                 inodes, tempFile, outputPath>>

\* a watcher of an input directory reports an event for filePath, a source
\* file changed from outside or a file a run has written: the handler calls
\* the debounced rebuild unless shouldIgnorePath says to ignore the path.  A
\* timer that is due runs before the handler does.
FileChanged(filePath) ==
  /\ proc = "running"
  /\ watchPc \in {"watching", "handling"}
  /\ ~TimerDue
  /\ \/ filePath = SourcePath
     \/ filePath \in fsEvents /\ (filePath = TempPath => tempFile # NoFile)
  /\ fsEvents' = fsEvents \ {filePath}
  /\ \E ignored \in {shouldIgnorePath(allIgnorePatterns, filePath)} :
       /\ event' = [filePath |-> filePath, accepted |-> ~ignored,
                    ignoredNow |-> shouldIgnorePath(PatternsOnDisk, filePath)]
       /\ IF ignored
            THEN UNCHANGED <<timeout, elapsed, burst>>
            ELSE DebouncedCall(filePath = SourcePath)
  /\ UNCHANGED <<digestVars, proc, exitCause, watchPc, isWritingFile, sigint,
                 polling, runs, inodes, tempFile, outputPath>>

\* the ignore file is edited and its watcher reports the change: the handler
\* calls the debounced rebuild
IgnoreFileChanged ==
  /\ proc = "running"
  /\ watchPc = "handling"
  /\ ~TimerDue
  /\ \E p \in {PathJoin(directories[1], IgnoreFileName)} :
       /\ p \in DOMAIN disk
       /\ \E c \in IgnoreVersions \ {disk[p]} : disk' = [disk EXCEPT ![p] = c]
  /\ DebouncedCall(TRUE)
  /\ UNCHANGED <<fsEvents, event, processVars, allIgnorePatterns,
                 allMinifyPatterns, proc, exitCause, watchPc, isWritingFile,
                 sigint, polling, runs, inodes, tempFile, outputPath>>

\* the timer of debounce fires: the rebuild sets the flag and calls
\* aggregateFiles
DebouncedRebuild ==
  /\ proc = "running"
  /\ TimerDue
  /\ \E r \in RunIds :
       /\ runs[r].pc = "none"
       /\ \A q \in RunIds : q < r => runs[q].pc # "none"
       /\ Goto(r, "generate")
  /\ timeout' = FALSE
  /\ isWritingFile' = TRUE
  /\ UNCHANGED <<elapsed, fsEvents, burst, event, digestVars, proc, exitCause, watchPc, sigint, polling,
                 inodes, tempFile, outputPath>>

\* SIGINT arrives: before the handler is registered the process ends at
\* once; the handler waits when the flag is set and exits otherwise
Sigint ==
  /\ proc = "running"
  /\ ~sigint.received
  /\ sigint' = [received |-> TRUE, inProgress |-> InProgress]
  /\ IF watchPc # "handling"
       THEN Exit("signal") /\ UNCHANGED polling
       ELSE IF isWritingFile
         THEN polling' = TRUE /\ UNCHANGED <<proc, exitCause>>
         ELSE Exit("handler") /\ UNCHANGED polling
  /\ UNCHANGED <<elapsed, fsEvents, burst, event, digestVars, watchPc, isWritingFile, timeout, runs, inodes,
                 tempFile, outputPath>>

\* the 100 ms interval of the handler finds the flag cleared
CheckInterval ==
  /\ proc = "running"
  /\ polling
  /\ ~isWritingFile
  /\ Exit("interval")
  /\ UNCHANGED <<elapsed, fsEvents, burst, event, digestVars, watchPc, isWritingFile, timeout, sigint,
                 polling, runs, inodes, tempFile, outputPath>>

\* a handler without the timeout
NeverForceExit == FALSE /\ UNCHANGED vars

\* the 2000 ms timeout of the handler fires
ForceExitTimeout ==
  /\ proc = "running"
  /\ polling
  /\ Exit("forceExit")
  /\ UNCHANGED <<elapsed, fsEvents, burst, event, digestVars, watchPc, isWritingFile, timeout, sigint,
                 polling, runs, inodes, tempFile, outputPath>>

NextWatch ==
  \/ WatchFiles
  \/ \E r \in RunIds :
       \/ GenerateDigest(r) \/ Mkdir(r) \/ OpenTemp(r) \/ WriteChunk(r)
       \/ StatTemp(r) \/ UnlinkTemp(r) \/ RenameTemp(r) \/ RunReturns(r)
  \/ SetupWatchers \/ InstallSigintHandler \/ Tick
  \/ (\E filePath \in EventPaths : FileChanged(filePath))
  \/ IgnoreFileChanged
  \/ DebouncedRebuild \/ Sigint \/ CheckInterval \/ ForceExitTimeout

SpecWatch == InitWatch /\ [][NextWatch]_vars

\* Node runs the callback of a timer that is due, whatever the runs of
\* aggregateFiles are waiting for: the timer of debounce and the timeout of
\* the SIGINT handler
FairSpecWatch ==
  /\ SpecWatch
  /\ WF_vars(DebouncedRebuild)
  /\ WF_vars(ForceExitTimeout)
(***************************************************************************)
(* Properties.                                                             *)
(***************************************************************************)
Returned == pc \in {"returned", "content"}

\* the loop iterations of this run that counted a file as included
IncludedLog ==
  SelectSeq(log, LAMBDA r : r.outcome \in {"minified", "text", "binary"})

\* the loop iterations of this run that skipped a text file
SkippedLog ==
  SelectSeq(log, LAMBDA r : r.outcome \in {"tooLarge", "readFailed"})

\* C1: for every run of processFiles the returned stats satisfy
\* totalFiles = includedCount + defaultIgnoredCount + customIgnoredCount.
C1_ClassificationExhaustive ==
  Returned =>
    result.stats.totalFiles =
      result.stats.includedCount + result.stats.defaultIgnoredCount
      + result.stats.customIgnoredCount

\* C2: every file counted in skippedFiles contributes exactly one
\* ProcessedFile to the returned files, whose content is the explanatory
\* fragment built for it.
C2_SkippedFileHasFragment ==
  Returned =>
    /\ result.stats.skippedFiles = Len(SkippedLog)
    /\ \A i \in 1..Len(SkippedLog) :
         Cardinality({k \in 1..Len(result.files) :
                        result.files[k] =
                          [fileName |-> DisplayPath(SkippedLog[i].entry),
                           content |-> SkippedLog[i].fileContent]}) = 1

\* C3: the failure of one file's stat, binary check or read never aborts the
\* run of processFiles.
C3_FileFailureNeverAborts ==
  \A i \in 1..Len(log) : log[i].outcome # "threw"

\* the entry matches a pattern of an ignore tier that is in force
MatchesIgnorePattern(entry) ==
  \/ /\ options.useDefaultIgnores
     /\ Ignores(DEFAULT_IGNORES \o options.additionalDefaultIgnores,
                entry.relativePath)
  \/ Ignores(allIgnorePatterns[entry.sourceDir], entry.relativePath)

MatchesMinifyPattern(entry) ==
  Ignores(allMinifyPatterns[entry.sourceDir], entry.relativePath)

\* C4: a file that matches an ignore pattern and a minify pattern is counted
\* as ignored, produces no ProcessedFile, is not counted in minifiedCount,
\* and neither the minify matcher nor the description callback is consulted
\* for it.
C4_IgnoreWinsOverMinify ==
  pc = "returned" =>
    /\ \A i \in 1..Len(log) :
         MatchesIgnorePattern(log[i].entry) /\ MatchesMinifyPattern(log[i].entry)
           => /\ log[i].outcome \in {"defaultIgnored", "customIgnored"}
              /\ ~log[i].consulted
              /\ ~log[i].called
    /\ Len(processedFiles) = Len(IncludedLog)
    /\ minifiedCount = Len(SelectSeq(log, LAMBDA r : r.outcome = "minified"))
    /\ defaultIgnoredCount + customIgnoredCount =
         Len(SelectSeq(log, LAMBDA r :
               r.outcome \in {"defaultIgnored", "customIgnored"}))

C4_Witness ==
  /\ Returned
  /\ \E i \in 1..Len(log) :
       /\ Ignores(allIgnorePatterns[log[i].entry.sourceDir],
                  log[i].entry.relativePath)
       /\ MatchesMinifyPattern(log[i].entry)
       /\ log[i].outcome = "customIgnored"
       /\ result.stats.customIgnoredCount = 1
       /\ result.stats.minifiedCount = 0
       /\ result.files = <<>>

\* the same case in the default tier: a vendored file the minify file names
C4_DefaultTierCase ==
  /\ Returned
  /\ \E i \in 1..Len(log) :
       /\ options.useDefaultIgnores
       /\ Ignores(DEFAULT_IGNORES, log[i].entry.relativePath)
       /\ MatchesMinifyPattern(log[i].entry)
       /\ log[i].outcome = "defaultIgnored"

\* C5: with an output path that lies under an input directory, the file at
\* that path is counted as default-ignored and produces no ProcessedFile.
C5_OutputFileExcluded ==
  \A i \in 1..Len(log) :
    /\ options.outputFilePath # <<>>
    /\ Resolve(log[i].entry.fullPath) = Resolve(options.outputFilePath)
    => log[i].outcome = "defaultIgnored"

\* C6: fileSizeInBytes is the UTF-8 length of the concatenation, in order,
\* of the returned contents, for processFiles and for generateDigestContent,
\* and content is that concatenation.
C6_SizeOfConcatenation ==
  /\ Returned =>
       result.stats.fileSizeInBytes = ByteLength(JoinContents(result.files))
  /\ pc = "content" =>
       /\ digest.content = JoinContents(digest.files)
       /\ digest.stats.fileSizeInBytes = ByteLength(digest.content)

\* C7: no two ProcessedFile records of one run have the same fileName.
C7_UniqueFileNames ==
  Returned =>
    \A i, j \in 1..Len(result.files) :
      i # j => result.files[i].fileName # result.files[j].fileName

\* C8: with more than one input directory every display path is
\* basename(root) + "/" + relativePath of the root the file came from, with
\* one directory it is the relative path; each fragment carries the content
\* of the file in its own root.
C8_DisplayPathNamesItsRoot ==
  pc = "returned" =>
    /\ Len(processedFiles) = Len(IncludedLog)
    /\ \A k \in 1..Len(IncludedLog) :
         LET e == IncludedLog[k].entry
             own == disk[Resolve(e.sourceDir) \o Slash \o e.relativePath]
         IN /\ processedFiles[k].fileName =
                 IF Len(directories) > 1
                 THEN Basename(e.sourceDir) \o Slash \o e.relativePath
                 ELSE e.relativePath
            /\ options.minifyFileDescription # "custom"
                 => StartsWith(processedFiles[k].content,
                               <<"#", " ">> \o processedFiles[k].fileName)
            /\ IncludedLog[k].outcome = "text" /\ own \in {PlainText, OtherText}
                 => IsInfix(<<"\n">> \o own.content \o <<"\n">>,
                            processedFiles[k].content)

C8_Witness ==
  /\ Returned
  /\ Len(directories) = 2
  /\ \E i, j \in 1..Len(IncludedLog) :
       /\ i # j
       /\ IncludedLog[i].entry.relativePath = IncludedLog[j].entry.relativePath
       /\ IncludedLog[i].entry.sourceDir # IncludedLog[j].entry.sourceDir
       /\ IncludedLog[i].outcome = "text"
       /\ IncludedLog[j].outcome = "text"
       /\ result.files[i].fileName # result.files[j].fileName
       /\ IsInfix(PlainText.content, result.files[i].content)
       /\ IsInfix(OtherText.content, result.files[j].content)

\* a before b would contradict the numeric-aware order: a number run that
\* is larger, or a letter-leading name before a digit-leading one
Misordered(a, b) ==
  \/ a = F10 /\ b \in {F2, F2Upper}
  \/ a = D10 /\ b = N9Svg
  \/ a \in {F2, F10, F2Upper} /\ b \in {D10, N9Svg}

\* C9: the returned files appear in non-decreasing order of root-relative
\* path under the numeric-aware comparison: f2 before f10, 9 before 10,
\* digit-leading names before letter-leading ones.
C9_NaturalOrder ==
  pc = "returned" =>
    \A i, j \in 1..Len(result.files) :
      i < j =>
        /\ result.files[i].fileName = DisplayPath(IncludedLog[i].entry)
        /\ result.files[j].fileName = DisplayPath(IncludedLog[j].entry)
        /\ naturalSort(IncludedLog[i].entry.relativePath,
                       IncludedLog[j].entry.relativePath) <= 0
        /\ ~Misordered(IncludedLog[i].entry.relativePath,
                       IncludedLog[j].entry.relativePath)

C9_Witness ==
  /\ Returned
  /\ Len(result.files) = 3
  /\ IncludedLog[1].entry.relativePath = N9Svg
  /\ IncludedLog[2].entry.relativePath = D10
  /\ IncludedLog[3].entry.relativePath = F2

\* C10: a second run over the unchanged disk with the same options returns
\* the same content and the same files, whatever order the directory
\* listing comes in.
C10_RerunIsIdentical ==
  pc = "content" /\ runNo > 1 /\ options = previousRun.options =>
    /\ digest.content = previous.content
    /\ digest.files = previous.files


\* the iterations of this run that wrapped a file's text in a fenced block
TextLog == SelectSeq(log, LAMBDA r : r.outcome = "text")

\* the lines of a fragment
LinesOf(fileContent) == Split(fileContent, "\n")

\* C11: in the fragment of a text file no line between the opening fence
\* line and the final closing fence line begins with three consecutive
\* backticks, with or without whitespace removal.
C11_FenceNotTerminatedEarly ==
  pc = "returned" =>
    \A i \in 1..Len(TextLog) :
      \A lines \in {LinesOf(TextLog[i].fileContent)} :
        /\ Len(lines) >= 6
        /\ StartsWith(lines[3], TripleBacktick)
        /\ lines[Len(lines) - 2] = TripleBacktick
        /\ \A k \in 4..(Len(lines) - 3) : ~StartsWith(lines[k], TripleBacktick)

C11_Witness ==
  /\ pc = "returned"
  /\ \E i \in 1..Len(TextLog) :
       /\ FileAt(TextLog[i].entry.fullPath) = FenceText
       /\ ~options.removeWhitespaceFlag
       /\ Len(LinesOf(TextLog[i].fileContent)) = 10
  /\ \E i \in 1..Len(TextLog) :
       /\ FileAt(TextLog[i].entry.fullPath) = IndentedFence
       /\ ~options.removeWhitespaceFlag

\* what stands between the opening fence line and the closing fence of a
\* text fragment
FencedBody(r) ==
  LET extension == Extname(r.entry.relativePath)
      opening == Len(Heading(DisplayPath(r.entry))) + 3
                 + (IF Len(extension) > 1 THEN Len(extension) - 1 ELSE 0) + 1
  IN SubSeq(r.fileContent, opening + 1, Len(r.fileContent) - 6)

\* the pieces of s that are white space, and those that are not
WhiteSpaceOf(s) == SelectSeq(s, LAMBDA c : c \in WhiteSpace)

InkOf(s) == SelectSeq(s, LAMBDA c : c \notin WhiteSpace)

\* every run of white space is one space, and none opens or ends s
IsCollapsed(s) ==
  /\ \A i \in 1..Len(s) : s[i] \in WhiteSpace => s[i] = " "
  /\ \A i \in 1..(Len(s) - 1) : ~(s[i] = " " /\ s[i + 1] = " ")
  /\ s # <<>> => s[1] # " " /\ s[Len(s)] # " "

WhitespaceSensitive(relativePath) ==
  Extname(relativePath) \in
    {<<".","p","y">>, <<".","y","a","m","l">>, <<".","y","m","l">>,
     <<".","j","a","d","e">>, <<".","h","a","m","l">>, <<".","s","l","i","m">>,
     <<".","c","o","f","f","e","e">>, <<".","p","u","g">>,
     <<".","s","t","y","l">>, <<".","g","d">>}

\* C12: the content of a text file is collapsed (every run of white space
\* one space, trimmed) exactly when whitespace removal is requested and the
\* extension is not in the whitespace-sensitive set; otherwise its white
\* space is kept as it was read.
C12_CollapseUnlessSensitive ==
  pc = "returned" =>
    \A i \in 1..Len(TextLog) :
      \A body \in {FencedBody(TextLog[i])} :
      \A read \in {FileAt(TextLog[i].entry.fullPath).content} :
        /\ InkOf(body) = InkOf(escapeTripleBackticks(StripNulls(read)))
        /\ IF /\ options.removeWhitespaceFlag
              /\ ~WhitespaceSensitive(TextLog[i].entry.relativePath)
           THEN IsCollapsed(body)
           ELSE /\ WhiteSpaceOf(body) = WhiteSpaceOf(read)
                /\ body = escapeTripleBackticks(StripNulls(read))

C12_Witness ==
  /\ pc = "returned"
  /\ options.removeWhitespaceFlag
  /\ \E i, j \in 1..Len(TextLog) :
       /\ FileAt(TextLog[i].entry.fullPath) = RichText
       /\ FileAt(TextLog[j].entry.fullPath) = RichText
       /\ WhitespaceSensitive(TextLog[i].entry.relativePath)
       /\ ~WhitespaceSensitive(TextLog[j].entry.relativePath)
       /\ ~IsCollapsed(FencedBody(TextLog[i]))
       /\ IsCollapsed(FencedBody(TextLog[j]))
       /\ FencedBody(TextLog[i]) # FencedBody(TextLog[j])

\* the iterations that reached the choice between text and binary
SniffedLog ==
  SelectSeq(log, LAMBDA r :
    r.outcome \in {"text", "tooLarge", "readFailed", "binary"})

\* the byte-sniffing check reports the file as not binary
SniffedAsText(entry) ==
  FileAt(entry.fullPath).kind \notin {"binary", "sniffError"}

\* the extensions getFileType has a type name for, .svg aside
KnownTypeExtensions ==
    {<<".", "j", "p", "g">>,
     <<".", "j", "p", "e", "g">>,
     <<".", "p", "n", "g">>,
     <<".", "g", "i", "f">>,
     <<".", "b", "m", "p">>,
     <<".", "w", "e", "b", "p">>,
     <<".", "w", "a", "s", "m">>,
     <<".", "p", "d", "f">>,
     <<".", "d", "o", "c">>,
     <<".", "d", "o", "c", "x">>,
     <<".", "x", "l", "s">>,
     <<".", "x", "l", "s", "x">>,
     <<".", "p", "p", "t">>,
     <<".", "p", "p", "t", "x">>,
     <<".", "z", "i", "p">>,
     <<".", "r", "a", "r">>,
     <<".", "7", "z">>,
     <<".", "e", "x", "e">>,
     <<".", "d", "l", "l">>,
     <<".", "s", "o">>,
     <<".", "d", "y", "l", "i", "b">>}

\* the type-note fragment of a file that is not shown as text
IsTypeNote(r) ==
  \E note \in {<<"This is a file of the type: ">>,
               <<"This is a binary file of the type: ">>} :
    StartsWith(r.fileContent, Heading(DisplayPath(r.entry)) \o note)

\* C13: a file that is neither ignored nor minified is classified Text
\* exactly when the sniffing reports it as not binary and its extension is
\* not .svg; otherwise it is BinaryOrSvg, gets a type note and counts in
\* binaryAndSvgFileCount.
C13_TextUnlessSniffedBinaryOrSvg ==
  pc = "returned" =>
    /\ \A i \in 1..Len(SniffedLog) :
         /\ SniffedLog[i].outcome # "binary"
              <=> /\ SniffedAsText(SniffedLog[i].entry)
                  /\ ToLowerCase(Extname(SniffedLog[i].entry.fullPath)) # DotSvg
         /\ SniffedLog[i].outcome = "binary" => IsTypeNote(SniffedLog[i])
    /\ binaryAndSvgFileCount =
         Len(SelectSeq(log, LAMBDA r : r.outcome = "binary"))

\* C13, amended: such a file is classified Text exactly when the sniffing
\* reports it as not binary, its path does not end in .svg in any case, and
\* its extension is none of those getFileType has a type name for;
\* otherwise it is BinaryOrSvg, gets a type note and counts in
\* binaryAndSvgFileCount.
C13_TextUnlessBinaryByBytesOrName ==
  pc = "returned" =>
    /\ \A i \in 1..Len(SniffedLog) :
         /\ SniffedLog[i].outcome # "binary"
              <=> /\ SniffedAsText(SniffedLog[i].entry)
                  /\ ~EndsWith(ToLowerCase(SniffedLog[i].entry.fullPath), DotSvg)
                  /\ ToLowerCase(Extname(SniffedLog[i].entry.fullPath))
                       \notin KnownTypeExtensions
         /\ SniffedLog[i].outcome = "binary" =>
              /\ IsTypeNote(SniffedLog[i])
              /\ \E k \in 1..Len(result.files) :
                   result.files[k] =
                     [fileName |-> DisplayPath(SniffedLog[i].entry),
                      content |-> SniffedLog[i].fileContent]
    /\ binaryAndSvgFileCount =
         Len(SelectSeq(log, LAMBDA r : r.outcome = "binary"))
    /\ result.stats.binaryAndSvgFileCount = binaryAndSvgFileCount

C13_Witness ==
  /\ pc = "returned"
  /\ result.stats.binaryAndSvgFileCount = 2
  /\ \E i, j, k \in 1..Len(SniffedLog) :
       /\ SniffedLog[i].entry.relativePath = NotesDoc
       /\ SniffedAsText(SniffedLog[i].entry)
       /\ SniffedLog[i].outcome = "binary"
       /\ SniffedLog[j].entry.relativePath = LogoSvg
       /\ SniffedAsText(SniffedLog[j].entry)
       /\ SniffedLog[j].outcome = "binary"
       /\ SniffedLog[k].entry.relativePath = F2
       /\ SniffedLog[k].outcome = "text"

\* C16: no file whose root-relative path matches a pattern given in
\* additionalDefaultIgnores appears among the returned files.
C16_AdditionalIgnoresExclude ==
  pc = "returned" =>
    /\ Len(result.files) = Len(IncludedLog)
    /\ \A i \in 1..Len(IncludedLog) :
         ~Ignores(options.additionalDefaultIgnores,
                  IncludedLog[i].entry.relativePath)

\* C14: a callback that returns metadata.defaultText unchanged yields the
\* files, content and stats of the same run (the same tree, patterns and
\* entries) without a callback.
C14_DefaultTextCallbackIsNeutral ==
  /\ pc = "content"
  /\ runNo > 1
  /\ previousRun.options # <<>>
  /\ previousRun.options =
       [options EXCEPT !.minifyFileDescription = "default"]
  /\ options.minifyFileDescription = "none"
  /\ previousRun.allFileEntries = allFileEntries
  => digest = previous

C14_Witness ==
  /\ pc = "content"
  /\ runNo > 1
  /\ previousRun.options =
       [options EXCEPT !.minifyFileDescription = "default"]
  /\ options.minifyFileDescription = "none"
  /\ previousRun.allFileEntries = allFileEntries
  /\ digest.stats.minifiedCount >= 1
  /\ digest = previous

\* the iterations of this run that took the minified branch
MinifiedLog == SelectSeq(log, LAMBDA r : r.outcome = "minified")

\* the returned files of the minified entries among the first n included
\* ones, in the order of the output
RECURSIVE MinifiedFiles(_)
MinifiedFiles(n) ==
  IF n = 0 THEN <<>>
  ELSE MinifiedFiles(n - 1)
       \o (IF IncludedLog[n].outcome = "minified" THEN <<result.files[n]>>
           ELSE <<>>)

\* C15: during one run the description callback is invoked exactly once for
\* each file classified Minified, in output order, and for no other file;
\* what it returns is that file's fragment.
C15_CallbackOncePerMinifiedFile ==
  pc = "returned" =>
    IF options.minifyFileDescription = "none" THEN calls = <<>>
    ELSE /\ Len(calls) = Len(MinifiedLog)
         /\ Len(result.files) = Len(IncludedLog)
         /\ \A files \in {MinifiedFiles(Len(IncludedLog))} :
              /\ Len(files) = Len(calls)
              /\ \A k \in 1..Len(calls) :
                   /\ calls[k].filePath = MinifiedLog[k].entry.fullPath
                   /\ calls[k].displayPath = files[k].fileName
                   /\ files[k].content =
                        InvokeCallback(options.minifyFileDescription, calls[k])
         /\ \A i \in 1..Len(log) :
              log[i].called <=> log[i].outcome = "minified"

C15_Witness ==
  /\ pc = "returned"
  /\ options.minifyFileDescription # "none"
  /\ Len(calls) = 1
  /\ Len(log) = 3
  /\ \E i \in 1..Len(log) : log[i].outcome = "defaultIgnored"
  /\ \E i \in 1..Len(log) : log[i].outcome = "text"
  /\ result.stats.minifiedCount >= 1


\* the chunks of a file are a whole digest: all of them, written by one
\* writer
IsComplete(content) ==
  /\ Len(content) = Chunks
  /\ \A i \in 1..Chunks : content[i] = content[1] /\ content[i] # Hole

\* C17: while writeDigestToFile runs, and after an interruption at any step,
\* the output name leads to no file, to the content it led to before, or to
\* the complete new content, never to a part of a digest.
C17_OutputNeverPartial ==
  outputPath # NoFile => IsComplete(inodes[outputPath])

\* the runs whose writeDigestToFile has thrown to its caller
WriteFailed ==
  {r \in RunIds : runs[r].pc = "threw" /\ runs[r].fd # NoFile}

\* C18: when writeDigestToFile fails at a step (the write of the temp file,
\* the check of its size, the rename), the error reaches the caller and the
\* temp name leads to no file by then.
C18_NoTempAfterFailure ==
  WriteFailed # {} => tempFile = NoFile

\* C19: in watch mode at most one run of aggregateFiles is in progress at
\* any time.
C19_AtMostOneRun ==
  Cardinality(InProgress) <= 1

\* C20: after SIGINT with a run in progress, the process does not exit
\* before each of those runs has completed, unless the 2-second wait has
\* elapsed.
C20_ExitWaitsForRuns ==
  (/\ proc = "exited"
   /\ sigint.received
   /\ exitCause \in {"signal", "handler", "interval"})
  => sigint.inProgress \cap InProgress = {}

\* the rebuilds the debounced function has started
RebuildsInvoked ==
  Cardinality({r \in RunIds : r > 1 /\ runs[r].pc # "none"})

\* every burst has led to one rebuild, or its timer is still pending
OneRebuildPerBurst ==
  RebuildsInvoked + (IF timeout THEN 1 ELSE 0) = burst.count

\* C21: a burst of accepted events, each less than the wait after the one
\* before, leads to exactly one call of the rebuild, and the rebuild is
\* called once the wait has passed without a further event (unless the
\* process has ended).
C21_BurstGivesOneRebuild ==
  /\ []OneRebuildPerBurst
  /\ [](TimerDue => <>(~timeout \/ proc = "exited"))

\* a burst of several events has led to its one rebuild
C21_Witness ==
  /\ burst.count = 1
  /\ burst.many
  /\ ~timeout
  /\ RebuildsInvoked = 1

C28_OwnWriteNeverSchedules ==
  /\ event.filePath \in {TempPath, OutputAbsPath} => ~event.accepted
  /\ burst.count > 0 => burst.external

\* C29: events are filtered with the patterns the ignore file holds now: the
\* change of a source file schedules a rebuild exactly when the file is not
\* ignored under the current ignore file.
C29_FilteredWithCurrentPatterns ==
  event.filePath = SourcePath => (event.accepted <=> ~event.ignoredNow)

\* C23: no token estimate is made of a digest of more than 10 MB, whichever
\* function reports the tokens: every call of the estimator is made over a
\* digest of at most 10 MB, generateDigestContent returns estimatedTokens 0
\* for a larger one, and estimates a digest of at most 10 MB.
C23_NoEstimateAboveLimit ==
  /\ \A i \in 1..Len(estimated) : estimated[i].digestSize <= MAX_FILE_SIZE
  /\ pc \in {"content", "done"} /\ digest.stats.fileSizeInBytes > MAX_FILE_SIZE
       => digest.stats.estimatedTokens = 0
  /\ pc \in {"content", "done"} /\ digest.stats.fileSizeInBytes <= MAX_FILE_SIZE
       => \E i \in 1..Len(estimated) :
            estimated[i] = EstimatorCall("generateDigestContent",
                                         digest.stats.fileSizeInBytes)

\* the entries of the list that say path and size
StatEntries(entries, path, size) ==
  Cardinality({i \in 1..Len(entries) :
                 entries[i].path = path /\ entries[i].sizeInBytes = size})

\* C24: getFileStats returns one entry for every file processFiles returned
\* and no other, each with the file's fileName as path and the UTF-8 byte
\* length of its content as sizeInBytes, and no entry stands before a larger
\* one.
C24_OneEntryPerFileLargestFirst ==
  pc = "stats" =>
    /\ Len(fileStats.files) = Len(result.files)
    /\ \A i \in 1..Len(result.files) :
         StatEntries(fileStats.files, result.files[i].fileName,
                   ByteLength(result.files[i].content))
           = Cardinality({j \in 1..Len(result.files) :
                            /\ result.files[j].fileName = result.files[i].fileName
                            /\ ByteLength(result.files[j].content)
                                 = ByteLength(result.files[i].content)})
    /\ \A i \in 1..(Len(fileStats.files) - 1) :
         fileStats.files[i].sizeInBytes >= fileStats.files[i + 1].sizeInBytes

\* getFileStats has returned two entries of different size, in another order
\* than processFiles returned the files
C24_Witness ==
  /\ pc = "stats"
  /\ Len(fileStats.files) = 2
  /\ fileStats.files[1].sizeInBytes > fileStats.files[2].sizeInBytes
  /\ fileStats.files[1].path = result.files[2].fileName

\* C25: with outputFile null generateDigest returns the content as a string
\* and writes no file; with an output file, unless the write throws, it
\* returns no value and has written that content, and nothing else, under
\* the output path resolved against the working directory.
C25_ReturnsContentOrWritesIt ==
  pc = "done" =>
    IF options.outputFilePath = <<>>
    THEN /\ generated.returned = "string"
         /\ generated.value = digest.content
         /\ generated.written = {}
    ELSE \/ generated.returned = "threw"
         \/ /\ generated.returned = "undefined"
            /\ generated.written =
                 {[path |-> IF IsAbsolute(options.outputFilePath)
                            THEN options.outputFilePath
                            ELSE PathJoin(CWD, options.outputFilePath),
                   content |-> digest.content]}

\* generateDigest has written a digest that holds a file
C25_Witness ==
  /\ pc = "done"
  /\ generated.returned = "undefined"
  /\ Len(result.files) > 0
  /\ \E w \in generated.written : IsInfix(result.files[1].content, w.content)

\* generateDigest has returned a digest that holds a file
C25_WitnessNull ==
  /\ pc = "done"
  /\ generated.returned = "string"
  /\ Len(result.files) > 0
  /\ IsInfix(result.files[1].content, generated.value)

\* the lines of the pattern file of the directory that hold more than white
\* space and do not begin with "#", in the order of the file, and no line
\* when there is no such file
PatternLines(dir, filename) ==
  IF PathJoin(Resolve(dir), filename) \notin DOMAIN disk THEN <<>>
  ELSE SelectSeq(Split(disk[PathJoin(Resolve(dir), filename)].content, "\n"),
                 LAMBDA line :
                   /\ \E i \in 1..Len(line) : line[i] \notin WhiteSpace
                   /\ (line = <<>> \/ line[1] # "#"))

\* C26: once processFiles has read the pattern files without an error, the
\* patterns of every directory are the lines of its ignore file, and of its
\* minify file, that are not blank and do not begin with "#", in file order,
\* and none where the file is missing; a missing file raises no error.
C26_PatternLinesKept ==
  /\ pc \in {"loop", "returned", "content", "stats", "done"} =>
       \A d \in DirSet :
         /\ allIgnorePatterns[d] = PatternLines(d, IgnoreFileName)
         /\ allMinifyPatterns[d] = PatternLines(d, MinifyFileName)
  /\ (/\ runNo = 1
      /\ pc = "threw"
      /\ allFileEntries = <<>>)
       => \E d \in DirSet :
            \E name \in {IgnoreFileName, MinifyFileName} :
              PathJoin(Resolve(d), name) \in DOMAIN disk

\* the ignore file is missing and the minify file has given two patterns in
\* the order of the file
C26_Witness ==
  /\ pc = "loop"
  /\ \A d \in DirSet :
       /\ PathJoin(Resolve(d), IgnoreFileName) \notin DOMAIN disk
       /\ allIgnorePatterns[d] = <<>>
       /\ Len(allMinifyPatterns[d]) = 2
       /\ Len(Split(disk[PathJoin(Resolve(d), MinifyFileName)].content, "\n")) > 2

\* the ignore file has given its three patterns, the indented "#" among them
C26_WitnessIgnore ==
  /\ pc = "loop"
  /\ \E d \in DirSet : Len(allIgnorePatterns[d]) = 3

\* C27: what escapeTripleBackticks returns holds no three consecutive
\* backticks, whatever the text it was given: here the text of every file
\* that processFiles has wrapped in a fenced block.
C27_NoTripleBacktickLeft ==
  pc = "returned" =>
    \A i \in 1..Len(TextLog) :
      ~IsInfix(TripleBacktick,
               escapeTripleBackticks(
                 StripNulls(FileAt(TextLog[i].entry.fullPath).content)))

\* the names of the files of a list, in the order of the list
FileNames(files) == [i \in 1..Len(files) |-> files[i].fileName]

\* the iterations of this run that took the branch
Taken(outcome) == SelectSeq(log, LAMBDA r : r.outcome = outcome)

\* C30: in a result of processFiles stats.includedFiles lists the fileName
\* of the returned files in their order, includedCount is the number of
\* returned files, and the minified files and the binary or SVG files are
\* counted apart, each of them among the included ones.
C30_StatsAgreeWithFiles ==
  pc = "returned" =>
    /\ result.stats.includedFiles = FileNames(result.files)
    /\ result.stats.includedCount = Len(result.files)
    /\ result.stats.minifiedCount + result.stats.binaryAndSvgFileCount
         <= result.stats.includedCount
    /\ result.stats.minifiedCount = Len(Taken("minified"))
    /\ result.stats.binaryAndSvgFileCount = Len(Taken("binary"))

\* a result of several files in which a binary file that matches a minify
\* pattern is counted as minified and not as binary
C30_Witness ==
  /\ pc = "returned"
  /\ \E i \in 1..Len(log) :
       /\ log[i].outcome = "minified"
       /\ FileAt(log[i].entry.fullPath).kind = "binary"
  /\ result.stats.minifiedCount >= 1
  /\ result.stats.binaryAndSvgFileCount = 0
  /\ result.stats.includedCount >= 2

\* a result with an included file and a skipped file
C30_WitnessSkipped ==
  /\ pc = "returned"
  /\ result.stats.skippedFiles > 0
  /\ result.stats.includedCount > 0
=============================================================================
